---------------------------- MODULE Spec2Model ----------------------------
(***************************************************************************)
(* A model of the hwpers JSON -> HWPX converter: the HTML table grid       *)
(* compositor (jsontohwpx/table.rs), the HwpxTable span bookkeeping, the   *)
(* HwpxWriter document builder and its package serializer                  *)
(* (hwpx/writer.rs), and the convert driver (jsontohwpx/converter.rs).     *)
(*                                                                         *)
(* Vectors are sequences; the source's 0-based indices are kept and        *)
(* translated by At / SetAt.  Strings are sequences of one-character       *)
(* strings.                                                                *)
(***************************************************************************)
EXTENDS Integers, Sequences, FiniteSets, TLC

(***************************************************************************)
(* Bounds of the model                                                     *)
(***************************************************************************)
\* <tr> elements scanned per table
MaxRows == 3
\* <td>/<th> elements scanned per table, over all rows
MaxCells == 3
\* largest colspan / rowspan attribute value
MaxSpan == 2
\* HwpxTable API: largest grid side, and number of calls on one table
MaxGrid == 2
MaxCalls == 2
\* paragraphs pushed into one writer
MaxParas == 3
\* content items of one ArticleDocument
MaxContents == 3
\* segments before the frame header of a JPEG buffer
MaxSegments == 3
\* style-encoding calls followed on one document
MaxEncodes == 2
\* async-convert requests followed on one server run
MaxJobs == 2
\* largest worker pool followed
MaxWorkers == 2
\* hours of server time followed
MaxClock == 2
\* capacity of the job channel followed (the server's is 1000)
QueueCapacity == 1

(***************************************************************************)
(* Generic helpers                                                         *)
(***************************************************************************)
At(v, i) == v[i + 1]

SetAt(v, i, x) == [v EXCEPT ![i + 1] = x]

Min(a, b) == IF a <= b THEN a ELSE b

Max(a, b) == IF a >= b THEN a ELSE b

Repeat(x, n) == [i \in 1..n |-> x]

\* HashMap::insert
MapInsert(m, k, v) == [x \in (DOMAIN m) \cup {k} |-> IF x = k THEN v ELSE m[x]]

EmptyMap == [x \in {} |-> 0]

(***************************************************************************)
(* Text: str::trim                                                         *)
(***************************************************************************)
IsWhitespace(ch) == ch \in {" ", "\n", "\t"}

RECURSIVE TrimStart(_)
TrimStart(s) ==
    IF s # <<>> /\ IsWhitespace(Head(s)) THEN TrimStart(Tail(s)) ELSE s

RECURSIVE TrimEnd(_)
TrimEnd(s) ==
    IF s # <<>> /\ IsWhitespace(s[Len(s)])
    THEN TrimEnd(SubSeq(s, 1, Len(s) - 1))
    ELSE s

Trim(s) == TrimEnd(TrimStart(s))

(***************************************************************************)
(* JsonToHwpxError                                                         *)
(***************************************************************************)
exit_code(kind) ==
    CASE kind = "Input" -> 1
      [] kind = "Conversion" -> 2
      [] kind = "Io" -> 3
      [] kind = "Hwpx" -> 2

\* the status the HTTP handler answers a failed conversion with
http_status(kind) == IF kind = "Input" THEN 400 ELSE 500

NoResult == [kind |-> "none", msg |-> ""]

OkResult == [kind |-> "Ok", msg |-> ""]

Err(kind, msg) == [kind |-> kind, msg |-> msg]

IsErr(r) == r.kind \in {"Input", "Conversion", "Io", "Hwpx"}

(***************************************************************************)
(* HwpxTable                                                               *)
(***************************************************************************)
DefaultCellSpan == [col_span |-> 1, row_span |-> 1]

HwpxTable_new(nrows, ncols) ==
    [rows |-> Repeat(Repeat(<<>>, ncols), nrows),
     col_widths |-> Repeat(8390, ncols),
     cell_spans |-> EmptyMap,
     covered |-> {}]

from_data(data) ==
    [rows |-> data,
     col_widths |-> Repeat(8390, IF data = <<>> THEN 0 ELSE Len(data[1])),
     cell_spans |-> EmptyMap,
     covered |-> {}]

set_cell(t, r, c, value) ==
    IF r < Len(t.rows) /\ c < Len(At(t.rows, r))
    THEN [t EXCEPT !.rows = SetAt(@, r, SetAt(At(@, r), c, value))]
    ELSE t

\* The coordinates a span marks as covered: its rectangle without the origin.
SpanCovers(r, c, col_span, row_span) ==
    {<<rr, cc>> : rr \in r..(r + row_span - 1), cc \in c..(c + col_span - 1)}
        \ {<<r, c>>}

\* Mutant: the origin is marked covered as well.
set_cell_span_CoversOrigin(t, r, c, col_span, row_span) ==
    IF col_span <= 1 /\ row_span <= 1
    THEN t
    ELSE [t EXCEPT
            !.cell_spans = MapInsert(@, <<r, c>>,
                                     [col_span |-> col_span, row_span |-> row_span]),
            !.covered = @ \cup SpanCovers(r, c, col_span, row_span) \cup {<<r, c>>}]

set_cell_span(t, r, c, col_span, row_span) ==
    IF col_span <= 1 /\ row_span <= 1
    THEN t
    ELSE [t EXCEPT
            !.cell_spans = MapInsert(@, <<r, c>>,
                                     [col_span |-> col_span, row_span |-> row_span]),
            !.covered = @ \cup SpanCovers(r, c, col_span, row_span)]

is_covered(t, r, c) == <<r, c>> \in t.covered

get_cell_span(t, r, c) ==
    IF <<r, c>> \in DOMAIN t.cell_spans THEN t.cell_spans[<<r, c>>] ELSE DefaultCellSpan

NoTable == from_data(<<>>)

(***************************************************************************)
(* parse_html_table: grid dimensions                                       *)
(***************************************************************************)
RECURSIVE RowCols(_)
RowCols(prow) ==
    IF prow = <<>> THEN 0 ELSE Head(prow).col_span + RowCols(Tail(prow))

RECURSIVE ColCount(_)
ColCount(prows) ==
    IF prows = <<>> THEN 0 ELSE Max(RowCols(Head(prows)), ColCount(Tail(prows)))

RECURSIVE RowEnd(_, _)
RowEnd(prow, r) ==
    IF prow = <<>> THEN 0 ELSE Max(r + Head(prow).row_span, RowEnd(Tail(prow), r))

RECURSIVE MaxRowFrom(_, _)
MaxRowFrom(prows, r) ==
    IF r >= Len(prows)
    THEN Len(prows)
    ELSE Max(RowEnd(At(prows, r), r), MaxRowFrom(prows, r + 1))

MaxRow(prows) == MaxRowFrom(prows, 0)

(***************************************************************************)
(* parse_html_table: placement pass                                        *)
(***************************************************************************)
\* Mutant: the cursor is not advanced past occupied columns.
NextFree_NoSkip(occ_row, cursor, cc) == cursor

\* while col_cursor < col_count && occupied[row_idx][col_cursor]
RECURSIVE NextFree(_, _, _)
NextFree(occ_row, cursor, cc) ==
    IF cursor < cc /\ At(occ_row, cursor)
    THEN NextFree(occ_row, cursor + 1, cc)
    ELSE cursor

\* occupied.iter_mut().skip(r).take(rs) / row.iter_mut().skip(c).take(cs)
MarkOccupied(occ, r, c, cs, rs) ==
    [i \in 1..Len(occ) |->
        [j \in 1..Len(occ[i]) |->
            IF (i - 1) >= r /\ (i - 1) < r + rs /\ (j - 1) >= c /\ (j - 1) < c + cs
            THEN TRUE
            ELSE occ[i][j]]]

PlaceInit(prows) ==
    [col_count |-> ColCount(prows),
     max_row |-> MaxRow(prows),
     grid |-> Repeat(Repeat(<<>>, ColCount(prows)), MaxRow(prows)),
     occupied |-> Repeat(Repeat(FALSE, ColCount(prows)), MaxRow(prows)),
     spans |-> <<>>,
     col_cursor |-> 0,
     brk |-> FALSE,
     panic |-> FALSE]

\* Mutant: the column span is not clipped to the grid.
PlaceCellStep_NoClip(st, r, cell) ==
    LET cur == NextFree(At(st.occupied, r), st.col_cursor, st.col_count) IN
    IF cur >= st.col_count
    THEN [st EXCEPT !.col_cursor = cur, !.brk = TRUE]
    ELSE
        LET cs == cell.col_span
            rs == Min(cell.row_span, st.max_row - r)
        IN [st EXCEPT
              !.grid = SetAt(@, r, SetAt(At(@, r), cur, cell.text)),
              !.spans = IF cs > 1 \/ rs > 1 THEN Append(@, <<r, cur, cs, rs>>) ELSE @,
              !.occupied = MarkOccupied(@, r, cur, cs, rs),
              !.col_cursor = cur + cs]

\* One iteration of the inner loop `for cell in parsed_row`.
PlaceCellStep(st, r, cell) ==
    LET cur == NextFree(At(st.occupied, r), st.col_cursor, st.col_count) IN
    IF cur >= st.col_count
    THEN [st EXCEPT !.col_cursor = cur, !.brk = TRUE]
    ELSE IF r >= Len(st.grid) \/ cur >= Len(At(st.grid, r))
            \/ st.col_count - cur < 0 \/ st.max_row - r < 0
    THEN [st EXCEPT !.col_cursor = cur, !.panic = TRUE]
    ELSE
        LET cs == Min(cell.col_span, st.col_count - cur)
            rs == Min(cell.row_span, st.max_row - r)
        IN [st EXCEPT
              !.grid = SetAt(@, r, SetAt(At(@, r), cur, cell.text)),
              !.spans = IF cs > 1 \/ rs > 1 THEN Append(@, <<r, cur, cs, rs>>) ELSE @,
              !.occupied = MarkOccupied(@, r, cur, cs, rs),
              !.col_cursor = cur + cs]

RECURSIVE PlaceRow(_, _, _, _)
PlaceRow(st, r, prow, i) ==
    IF i > Len(prow) \/ st.brk \/ st.panic
    THEN st
    ELSE PlaceRow(PlaceCellStep(st, r, prow[i]), r, prow, i + 1)

RECURSIVE PlaceRows(_, _, _)
PlaceRows(st, prows, r) ==
    IF r >= Len(prows) \/ st.panic
    THEN st
    ELSE PlaceRows(
            PlaceRow([st EXCEPT !.col_cursor = 0, !.brk = FALSE], r, At(prows, r), 1),
            prows, r + 1)

RECURSIVE ApplySpans(_, _)
ApplySpans(t, sp) ==
    IF sp = <<>>
    THEN t
    ELSE ApplySpans(set_cell_span(t, Head(sp)[1], Head(sp)[2], Head(sp)[3], Head(sp)[4]),
                    Tail(sp))

BuildTable(grid_, spans_) == ApplySpans(from_data(grid_), spans_)

\* Mutant: the cell text is kept as written.
ParseCell_NoTrim(raw) ==
    [text |-> raw.text, col_span |-> Max(raw.col_span, 1),
     row_span |-> Max(raw.row_span, 1)]

\* First pass over the <tr> elements: trimmed cells, rows without cells dropped.
ParseCell(raw) ==
    [text |-> Trim(raw.text), col_span |-> Max(raw.col_span, 1),
     row_span |-> Max(raw.row_span, 1)]

RECURSIVE ParseRows(_)
ParseRows(trs) ==
    IF trs = <<>>
    THEN <<>>
    ELSE LET prow == [i \in 1..Len(Head(trs)) |-> ParseCell(Head(trs)[i])] IN
         IF prow # <<>> THEN <<prow>> \o ParseRows(Tail(trs)) ELSE ParseRows(Tail(trs))

NoRowsError == Err("Conversion", "no rows")

\* Mutant: markup without rows yields an empty table.
parse_html_table_EmptyOk(trs) ==
    LET prows == ParseRows(trs) IN
    IF prows = <<>>
    THEN [result |-> OkResult, table |-> NoTable, panic |-> FALSE]
    ELSE LET st == PlaceRows(PlaceInit(prows), prows, 0) IN
         [result |-> OkResult, table |-> BuildTable(st.grid, st.spans), panic |-> st.panic]

\* The whole function, on the <tr> elements of the parsed fragment.
parse_html_table(trs) ==
    LET prows == ParseRows(trs) IN
    IF prows = <<>>
    THEN [result |-> NoRowsError, table |-> NoTable, panic |-> FALSE]
    ELSE LET st == PlaceRows(PlaceInit(prows), prows, 0) IN
         [result |-> OkResult, table |-> BuildTable(st.grid, st.spans), panic |-> st.panic]


(***************************************************************************)
(* Strings                                                                 *)
(***************************************************************************)
\* text.chars().skip(n).take(k).collect()
SkipTake(text, n, k) == SubSeq(text, n + 1, Min(Len(text), n + k))

EscapeChar(ch) ==
    CASE ch = "&" -> <<"&", "a", "m", "p", ";">>
      [] ch = "<" -> <<"&", "l", "t", ";">>
      [] ch = ">" -> <<"&", "g", "t", ";">>
      [] ch = "\"" -> <<"&", "q", "u", "o", "t", ";">>
      [] ch = "'" -> <<"&", "a", "p", "o", "s", ";">>
      [] OTHER -> <<ch>>

RECURSIVE escape_xml(_)
escape_xml(text) ==
    IF text = <<>> THEN <<>> ELSE EscapeChar(Head(text)) \o escape_xml(Tail(text))

(***************************************************************************)
(* HwpxTextStyle, CharShape                                                *)
(***************************************************************************)
StyleDefault ==
    [has_size |-> FALSE, font_size |-> 0, bold |-> FALSE, italic |-> FALSE,
     underline |-> FALSE, strikethrough |-> FALSE, color |-> 0]

Bit(b, n) == IF b THEN n ELSE 0

\* Mutant: italic and underline change places.
to_char_shape_SwappedBits(style) ==
    [base_size |-> (IF style.has_size THEN style.font_size ELSE 10) * 100,
     properties |-> Bit(style.bold, 1) + Bit(style.italic, 4)
                    + Bit(style.underline, 2) + Bit(style.strikethrough, 8),
     text_color |-> style.color,
     underline_color |-> style.color,
     shade_color |-> 16777215,
     shadow_color |-> 8421504]

to_char_shape(style) ==
    [base_size |-> (IF style.has_size THEN style.font_size ELSE 10) * 100,
     properties |-> Bit(style.bold, 1) + Bit(style.italic, 2)
                    + Bit(style.underline, 4) + Bit(style.strikethrough, 8),
     text_color |-> style.color,
     underline_color |-> style.color,
     shade_color |-> 16777215,
     shadow_color |-> 8421504]

\* CharShape::new_default and the flag accessors live in model/char_shape.rs
CharShape_new_default == [base_size |-> 1000, properties |-> 0, text_color |-> 0,
                          underline_color |-> 0]

HasBit(properties, n) == (properties \div n) % 2 = 1

is_bold(cs) == HasBit(cs.properties, 1)

is_italic(cs) == HasBit(cs.properties, 2)

is_underline(cs) == HasBit(cs.properties, 4)

is_strikethrough(cs) == HasBit(cs.properties, 8)

format_char_pr(id, cs) ==
    [id |-> id,
     height |-> cs.base_size,
     bold |-> is_bold(cs),
     italic |-> is_italic(cs),
     underline |-> IF is_underline(cs) THEN "BOTTOM" ELSE "NONE",
     strikeout |-> IF is_strikethrough(cs) THEN "CONTINUOUS" ELSE "NONE",
     textColor |-> cs.text_color % 16777216]

(***************************************************************************)
(* HwpxImageFormat                                                         *)
(***************************************************************************)
ImageFormats == {"Png", "Jpeg", "Gif", "Bmp"}

extension(format) ==
    CASE format = "Png" -> "png"
      [] format = "Jpeg" -> "jpg"
      [] format = "Gif" -> "gif"
      [] format = "Bmp" -> "bmp"

(***************************************************************************)
(* HwpxImageFormat::from_bytes, HwpxImage::from_bytes                      *)
(*                                                                         *)
(* A buffer is a sequence of bytes 0..255.  Option<u32> is a record.       *)
(***************************************************************************)
None == [some |-> FALSE, value |-> 0]

Some(x) == [some |-> TRUE, value |-> x]

\* data.starts_with(prefix)
starts_with(data, prefix) ==
    Len(data) >= Len(prefix) /\ SubSeq(data, 1, Len(prefix)) = prefix

PngSignature == <<137, 80, 78, 71>>

JpegSoi == <<255, 216, 255>>

GifPrefix == <<71, 73, 70>>

BmpPrefix == <<66, 77>>

\* Mutant: no minimum length.
HwpxImageFormat_from_bytes_NoMinLen(data) ==
    IF starts_with(data, PngSignature) THEN "Png"
    ELSE IF starts_with(data, JpegSoi) THEN "Jpeg"
    ELSE IF starts_with(data, GifPrefix) THEN "Gif"
    ELSE IF starts_with(data, BmpPrefix) THEN "Bmp"
    ELSE "None"

HwpxImageFormat_from_bytes(data) ==
    IF Len(data) < 8 THEN "None"
    ELSE IF starts_with(data, PngSignature) THEN "Png"
    ELSE IF starts_with(data, JpegSoi) THEN "Jpeg"
    ELSE IF starts_with(data, GifPrefix) THEN "Gif"
    ELSE IF starts_with(data, BmpPrefix) THEN "Bmp"
    ELSE "None"

u16_from_be_bytes(b0, b1) == b0 * 256 + b1

u16_from_le_bytes(b0, b1) == b1 * 256 + b0

u32_from_be_bytes(b0, b1, b2, b3) == ((b0 * 256 + b1) * 256 + b2) * 256 + b3

\* Two's complement: a top byte of 128 or more is a negative value
i32_from_le_bytes(b0, b1, b2, b3) ==
    IF b3 < 128
    THEN ((b3 * 256 + b2) * 256 + b1) * 256 + b0
    ELSE -((((255 - b3) * 256 + (255 - b2)) * 256 + (255 - b1)) * 256 + (255 - b0)) - 1

unsigned_abs(x) == IF x < 0 THEN -x ELSE x

\* Mutant: the width is read in little-endian order.
read_png_dimensions_LittleEndian(data) ==
    IF Len(data) < 24
    THEN <<None, None>>
    ELSE <<Some(u32_from_be_bytes(At(data, 19), At(data, 18), At(data, 17), At(data, 16))),
           Some(u32_from_be_bytes(At(data, 20), At(data, 21), At(data, 22), At(data, 23)))>>

read_png_dimensions(data) ==
    IF Len(data) < 24
    THEN <<None, None>>
    ELSE <<Some(u32_from_be_bytes(At(data, 16), At(data, 17), At(data, 18), At(data, 19))),
           Some(u32_from_be_bytes(At(data, 20), At(data, 21), At(data, 22), At(data, 23)))>>

read_gif_dimensions(data) ==
    IF Len(data) < 10
    THEN <<None, None>>
    ELSE <<Some(u16_from_le_bytes(At(data, 6), At(data, 7))),
           Some(u16_from_le_bytes(At(data, 8), At(data, 9)))>>

read_bmp_dimensions(data) ==
    IF Len(data) < 26
    THEN <<None, None>>
    ELSE <<Some(unsigned_abs(i32_from_le_bytes(At(data, 18), At(data, 19), At(data, 20),
                                               At(data, 21)))),
           Some(unsigned_abs(i32_from_le_bytes(At(data, 22), At(data, 23), At(data, 24),
                                               At(data, 25))))>>

\* Mutant: the frame header is read as soon as its height and width are there.
RECURSIVE JpegScan_FieldsOnly(_, _)
JpegScan_FieldsOnly(data, i) ==
    IF ~(i + 1 < Len(data)) THEN <<None, None>>
    ELSE IF At(data, i) # 255 THEN JpegScan_FieldsOnly(data, i + 1)
    ELSE IF At(data, i + 1) \in {192, 194}
    THEN IF i + 8 < Len(data)
         THEN <<Some(u16_from_be_bytes(At(data, i + 7), At(data, i + 8))),
                Some(u16_from_be_bytes(At(data, i + 5), At(data, i + 6)))>>
         ELSE <<None, None>>
    ELSE IF i + 3 < Len(data)
    THEN JpegScan_FieldsOnly(data,
            i + 2 + u16_from_be_bytes(At(data, i + 2), At(data, i + 3)))
    ELSE <<None, None>>

\* The `while i + 1 < data.len()` loop of read_jpeg_dimensions, from i on
RECURSIVE JpegScan(_, _)
JpegScan(data, i) ==
    IF ~(i + 1 < Len(data)) THEN <<None, None>>
    ELSE IF At(data, i) # 255 THEN JpegScan(data, i + 1)
    ELSE IF At(data, i + 1) \in {192, 194}
    THEN IF i + 9 < Len(data)
         THEN <<Some(u16_from_be_bytes(At(data, i + 7), At(data, i + 8))),
                Some(u16_from_be_bytes(At(data, i + 5), At(data, i + 6)))>>
         ELSE <<None, None>>
    ELSE IF i + 3 < Len(data)
    THEN JpegScan(data, i + 2 + u16_from_be_bytes(At(data, i + 2), At(data, i + 3)))
    ELSE <<None, None>>

read_jpeg_dimensions(data) == JpegScan(data, 2)

\* Mutant: a segment is skipped by its declared length alone.
JpegStep_LengthOnly(data, i) ==
    IF At(data, i) # 255
    THEN [reads |-> {i}, i |-> i + 1, done |-> FALSE, out |-> <<None, None>>]
    ELSE IF At(data, i + 1) \in {192, 194}
    THEN IF i + 9 < Len(data)
         THEN [reads |-> {i, i + 1} \cup (i + 5)..(i + 8), i |-> i, done |-> TRUE,
               out |-> <<Some(u16_from_be_bytes(At(data, i + 7), At(data, i + 8))),
                         Some(u16_from_be_bytes(At(data, i + 5), At(data, i + 6)))>>]
         ELSE [reads |-> {i, i + 1}, i |-> i, done |-> TRUE, out |-> <<None, None>>]
    ELSE IF i + 3 < Len(data)
    THEN [reads |-> i..(i + 3),
          i |-> i + u16_from_be_bytes(At(data, i + 2), At(data, i + 3)),
          done |-> FALSE, out |-> <<None, None>>]
    ELSE [reads |-> {i, i + 1}, i |-> i, done |-> TRUE, out |-> <<None, None>>]

\* One iteration of the `while i + 1 < data.len()` loop of read_jpeg_dimensions
\* at index i: the indices of `data` it reads, the index it leaves in `i`,
\* whether it leaves the loop (return or break) and what is returned then
JpegStep(data, i) ==
    IF At(data, i) # 255
    THEN [reads |-> {i}, i |-> i + 1, done |-> FALSE, out |-> <<None, None>>]
    ELSE IF At(data, i + 1) \in {192, 194}
    THEN IF i + 9 < Len(data)
         THEN [reads |-> {i, i + 1} \cup (i + 5)..(i + 8), i |-> i, done |-> TRUE,
               out |-> <<Some(u16_from_be_bytes(At(data, i + 7), At(data, i + 8))),
                         Some(u16_from_be_bytes(At(data, i + 5), At(data, i + 6)))>>]
         ELSE [reads |-> {i, i + 1}, i |-> i, done |-> TRUE, out |-> <<None, None>>]
    ELSE IF i + 3 < Len(data)
    THEN [reads |-> i..(i + 3),
          i |-> i + 2 + u16_from_be_bytes(At(data, i + 2), At(data, i + 3)),
          done |-> FALSE, out |-> <<None, None>>]
    ELSE [reads |-> {i, i + 1}, i |-> i, done |-> TRUE, out |-> <<None, None>>]

\* (px as f64 * 25.4 / 96.0).round() as u32, for px > 0: px * 127 / 480 rounded
\* half up, computed on the quotient and remainder of px by 480
RoundMm(px) == (px \div 480) * 127 + ((px % 480) * 254 + 480) \div 960

ReadPx(data, format) ==
    CASE format = "Png" -> read_png_dimensions(data)
      [] format = "Jpeg" -> read_jpeg_dimensions(data)
      [] format = "Gif" -> read_gif_dimensions(data)
      [] OTHER -> read_bmp_dimensions(data)

\* Mutant: each axis is converted on its own.
MmOf_PerAxis(px) ==
    <<IF px[1].some /\ px[1].value > 0 THEN Some(Max(RoundMm(px[1].value), 1)) ELSE None,
      IF px[2].some /\ px[2].value > 0 THEN Some(Max(RoundMm(px[2].value), 1)) ELSE None>>

\* match (w_px, h_px) of read_dimensions_mm
MmOf(px) ==
    IF px[1].some /\ px[2].some /\ px[1].value > 0 /\ px[2].value > 0
    THEN <<Some(Max(RoundMm(px[1].value), 1)), Some(Max(RoundMm(px[2].value), 1))>>
    ELSE <<None, None>>

read_dimensions_mm(data, format) == MmOf(ReadPx(data, format))

NoImage == [some |-> FALSE, format |-> "None", data |-> <<>>,
            width_mm |-> None, height_mm |-> None]

HwpxImage_from_bytes(data) ==
    LET format == HwpxImageFormat_from_bytes(data) IN
    IF format = "None"
    THEN NoImage
    ELSE [some |-> TRUE, format |-> format, data |-> data,
          width_mm |-> read_dimensions_mm(data, format)[1],
          height_mm |-> read_dimensions_mm(data, format)[2]]

(***************************************************************************)
(* HwpxWriter: builder operations                                          *)
(***************************************************************************)
\* HwpxWriter::new(); headers and footers stay empty throughout the model
HwpxWriter_new ==
    [paragraphs |-> <<>>,
     char_shapes |-> <<>>,
     tables |-> <<>>,
     images |-> <<>>,
     hyperlinks |-> <<>>,
     next_table_id |-> 1,
     next_image_id |-> 1]

\* Paragraph { text: Some(..), char_shapes, ..Default::default() }
Paragraph(text, has_shapes, char_positions) ==
    [text |-> text, has_char_shapes |-> has_shapes, char_positions |-> char_positions,
     para_shape_id |-> 0]

current_paragraph_count(w) == Len(w.paragraphs)

push_paragraph(w, paragraph) == [w EXCEPT !.paragraphs = Append(@, paragraph)]

\* `len as u16`: the length of the shape table cut to 16 bits
ShapeId(len) == len % 65536

\* the id add_char_shape returns
add_char_shape_id(w) == ShapeId(Len(w.char_shapes))

add_char_shape(w, char_shape) == [w EXCEPT !.char_shapes = Append(@, char_shape)]

add_paragraph(w, text) == push_paragraph(w, Paragraph(text, FALSE, <<>>))

add_styled_paragraph(w, text, style) ==
    LET id == add_char_shape_id(w)
        w1 == add_char_shape(w, to_char_shape(style))
    IN push_paragraph(w1,
          Paragraph(text, TRUE, <<[position |-> 0, char_shape_id |-> id]>>))

\* The loop `for run in runs` of add_mixed_styled_paragraph, from run i on
RECURSIVE MixedRuns(_, _, _, _)
MixedRuns(acc, runs, i, position) ==
    IF i > Len(runs)
    THEN acc
    ELSE LET id == add_char_shape_id(acc.w) IN
         MixedRuns(
            [w |-> add_char_shape(acc.w, to_char_shape(runs[i].style)),
             char_positions |-> Append(acc.char_positions,
                                   [position |-> position, char_shape_id |-> id]),
             full_text |-> acc.full_text \o runs[i].text],
            runs, i + 1, position + Len(runs[i].text))

add_mixed_styled_paragraph(w, runs) ==
    LET acc == MixedRuns([w |-> w, char_positions |-> <<>>, full_text |-> <<>>],
                         runs, 1, 0)
    IN push_paragraph(acc.w, Paragraph(acc.full_text, TRUE, acc.char_positions))

add_table(w, t) ==
    push_paragraph(
        [w EXCEPT !.tables = Append(@, [para_idx |-> current_paragraph_count(w),
                                        table |-> t])],
        Paragraph(<<>>, FALSE, <<>>))

\* Mutant: the index is taken after the placeholder is pushed.
add_image_AfterPush(w, image) ==
    LET w1 == push_paragraph(w, Paragraph(<<>>, FALSE, <<>>))
    IN [w1 EXCEPT !.images = Append(@, [para_idx |-> current_paragraph_count(w1),
                                        image |-> image])]

add_image(w, image) ==
    push_paragraph(
        [w EXCEPT !.images = Append(@, [para_idx |-> current_paragraph_count(w),
                                        image |-> image])],
        Paragraph(<<>>, FALSE, <<>>))

add_paragraph_with_hyperlinks(w, text, links) ==
    push_paragraph(
        [w EXCEPT !.hyperlinks = Append(@, [para_idx |-> current_paragraph_count(w),
                                            links |-> links])],
        Paragraph(text, FALSE, <<>>))

(***************************************************************************)
(* HwpxWriter: the generated parts                                         *)
(*                                                                         *)
(* An XML part is modelled by the elements and attributes it carries that  *)
(* depend on the document; the fixed markup around them is left out.       *)
(***************************************************************************)
\* Preview/PrvText.txt
RECURSIVE PreviewJoin(_, _, _)
PreviewJoin(text, paras, i) ==
    IF i > Len(paras)
    THEN text
    ELSE PreviewJoin((IF text # <<>> THEN Append(text, "\n") ELSE text) \o paras[i].text,
                     paras, i + 1)

generate_preview_text(w) ==
    LET text == PreviewJoin(<<>>, w.paragraphs, 1)
    IN IF text = <<>> THEN <<" ">> ELSE text

\* <hh:charProperties>: the charPr records of header.xml, in order
generate_char_properties(w) ==
    IF w.char_shapes = <<>>
    THEN <<format_char_pr(0, CharShape_new_default)>>
    ELSE [i \in 1..Len(w.char_shapes) |-> format_char_pr(i - 1, w.char_shapes[i])]

\* format!("BinData/image{}.{}", idx + 1, image.format.extension())
ImagePath(idx, image) ==
    <<"BinData/image", ToString(idx + 1), ".", extension(image.format)>>

\* <hh:binDataItems>: empty when there are no images
generate_bin_data_items(w) ==
    [i \in 1..Len(w.images) |->
        [id |-> <<"image", ToString(i)>>,
         src |-> ImagePath(i - 1, w.images[i].image),
         isEmbeded |-> 1]]

generate_header_xml(w) ==
    [charProperties |-> generate_char_properties(w),
     binDataItems |-> generate_bin_data_items(w)]

\* <hp:run charPrIDRef="{}"><hp:t>{}</hp:t></hp:run>
TextRun(id, text) == [charPrIDRef |-> id, kind |-> "t", t |-> escape_xml(text)]

\* <hp:run charPrIDRef="0"> carrying a control (secPr, tbl, pic) and no text
CtrlRun(kind, ctrl) == [charPrIDRef |-> 0, kind |-> kind, t |-> <<>>, ctrl |-> ctrl]

\* The runs of a paragraph that has a style-run list
RECURSIVE StyledRuns(_, _, _, _)
StyledRuns(text, cps, i, last_pos) ==
    IF i > Len(cps)
    THEN IF last_pos < Len(text)
         THEN <<TextRun(0, SkipTake(text, last_pos, Len(text)))>>
         ELSE <<>>
    ELSE LET start == cps[i].position
             end == IF i + 1 <= Len(cps) THEN cps[i + 1].position ELSE Len(text)
             gap == IF start > last_pos
                    THEN SkipTake(text, last_pos, start - last_pos)
                    ELSE <<>>
             segment == SkipTake(text, start, end - start)
         IN (IF gap # <<>> THEN <<TextRun(0, gap)>> ELSE <<>>)
            \o (IF segment # <<>>
                THEN <<TextRun(cps[i].char_shape_id, segment)>>
                ELSE <<>>)
            \o StyledRuns(text, cps, i + 1, end)

\* The first element of v, from index i on, that is attached to paragraph
\* para_idx: its index from 0, or -1 (None)
RECURSIVE FindFor(_, _, _)
FindFor(v, para_idx, i) ==
    IF i > Len(v) THEN -1
    ELSE IF v[i].para_idx = para_idx THEN i - 1
    ELSE FindFor(v, para_idx, i + 1)

get_table_for_paragraph(w, para_idx) == FindFor(w.tables, para_idx, 1)

get_image_for_paragraph(w, para_idx) == FindFor(w.images, para_idx, 1)

get_hyperlinks_for_paragraph(w, para_idx) == FindFor(w.hyperlinks, para_idx, 1)

\* Mutant: covered cells are emitted like any other cell.
RECURSIVE TableRowCells_NoSkip(_, _, _, _)
TableRowCells_NoSkip(t, r, c, col_width) ==
    IF c >= Len(t.rows[1])
    THEN <<>>
    ELSE <<[t |-> escape_xml(At(At(t.rows, r), c)),
            colAddr |-> c, rowAddr |-> r,
            colSpan |-> get_cell_span(t, r, c).col_span,
            rowSpan |-> get_cell_span(t, r, c).row_span,
            width |-> col_width * get_cell_span(t, r, c).col_span,
            height |-> 1000 * get_cell_span(t, r, c).row_span]>>
         \o TableRowCells_NoSkip(t, r, c + 1, col_width)

\* <hp:tc> elements of row r from column c on; covered cells are skipped
RECURSIVE TableRowCells(_, _, _, _)
TableRowCells(t, r, c, col_width) ==
    IF c >= Len(t.rows[1])
    THEN <<>>
    ELSE (IF is_covered(t, r, c)
          THEN <<>>
          ELSE <<[t |-> escape_xml(At(At(t.rows, r), c)),
                  colAddr |-> c, rowAddr |-> r,
                  colSpan |-> get_cell_span(t, r, c).col_span,
                  rowSpan |-> get_cell_span(t, r, c).row_span,
                  width |-> col_width * get_cell_span(t, r, c).col_span,
                  height |-> 1000 * get_cell_span(t, r, c).row_span]>>)
         \o TableRowCells(t, r, c + 1, col_width)

format_table(w, t) ==
    LET row_cnt == Len(t.rows)
        col_cnt == IF t.rows = <<>> THEN 0 ELSE Len(t.rows[1])
    IN IF row_cnt = 0 \/ col_cnt = 0
       THEN [id |-> 0, rowCnt |-> 0, colCnt |-> 0, width |-> 0, height |-> 0,
             trs |-> <<>>]
       ELSE LET col_width == 42520 \div col_cnt IN
            [id |-> w.next_table_id, rowCnt |-> row_cnt, colCnt |-> col_cnt,
             width |-> col_width * col_cnt, height |-> 1000 * row_cnt,
             trs |-> [r \in 1..row_cnt |-> TableRowCells(t, r - 1, 0, col_width)]]

format_picture(w, img_idx, image) ==
    [id |-> w.next_image_id + img_idx, zOrder |-> img_idx,
     binaryItemIDRef |-> <<"image", ToString(img_idx + 1)>>]

\* bytes of a character in UTF-8: "U+D55C" stands for one 3-byte character
Utf8Len(ch) == IF ch = "U+D55C" THEN 3 ELSE 1

\* text.len(): the length of a string in bytes
RECURSIVE ByteLen(_)
ByteLen(text) == IF text = <<>> THEN 0 ELSE Utf8Len(Head(text)) + ByteLen(Tail(text))

\* the character index of the first occurrence of pat in text from i on, or -1
RECURSIVE Find(_, _, _)
Find(text, pat, i) ==
    IF i + Len(pat) > Len(text) THEN -1
    ELSE IF SubSeq(text, i + 1, i + Len(pat)) = pat THEN i
    ELSE Find(text, pat, i + 1)

\* Mutant: the occurrence is given as a character index.
str_find_CharIndex(text, pat) == Find(text, pat, 0)

\* text.find(pat): the byte offset of the first occurrence, or -1
str_find(text, pat) ==
    LET ci == Find(text, pat, 0)
    IN IF ci = -1 THEN -1 ELSE ByteLen(SubSeq(text, 1, ci))

HyperlinkRun(link) ==
    [charPrIDRef |-> 0, kind |-> "hyperlink", t |-> escape_xml(link.text),
     ctrl |-> [url |-> escape_xml(link.url)]]

RECURSIVE HyperlinkRuns(_, _, _, _)
HyperlinkRuns(text, links, i, last_end) ==
    IF i > Len(links)
    THEN IF last_end < Len(text)
         THEN <<TextRun(0, SkipTake(text, last_end, Len(text)))>>
         ELSE <<>>
    ELSE LET start == str_find(text, links[i].text) IN
         IF start = -1
         THEN HyperlinkRuns(text, links, i + 1, last_end)
         ELSE (IF start > last_end
               THEN <<TextRun(0, SkipTake(text, last_end, start - last_end))>>
               ELSE <<>>)
              \o <<HyperlinkRun(links[i])>>
              \o HyperlinkRuns(text, links, i + 1, start + Len(links[i].text))

format_hyperlinks(text, links) ==
    LET xml == HyperlinkRuns(text, links, 1, 0)
    IN IF xml = <<>> THEN <<TextRun(0, text)>> ELSE xml

\* The runs of paragraph idx after the section-properties run
ParagraphRuns(w, idx) ==
    LET para == At(w.paragraphs, idx)
        ti == get_table_for_paragraph(w, idx)
        ii == get_image_for_paragraph(w, idx)
        hi == get_hyperlinks_for_paragraph(w, idx)
    IN IF para.has_char_shapes
       THEN StyledRuns(para.text, para.char_positions, 1, 0)
       ELSE IF ti # -1
       THEN <<CtrlRun("tbl", format_table(w, At(w.tables, ti).table))>>
       ELSE IF ii # -1
       THEN <<CtrlRun("pic", format_picture(w, ii, At(w.images, ii).image))>>
       ELSE IF hi # -1
       THEN format_hyperlinks(para.text, At(w.hyperlinks, hi).links)
       ELSE <<TextRun(0, para.text)>>

SecPrRun == [charPrIDRef |-> 0, kind |-> "secPr", t |-> <<>>]

\* The <hp:p> elements of Contents/section0.xml
generate_section_xml_with_paragraphs(w) ==
    IF w.paragraphs = <<>>
    THEN <<[id |-> 0, paraPrIDRef |-> 0, runs |-> <<SecPrRun, TextRun(0, <<>>)>>]>>
    ELSE [i \in 1..Len(w.paragraphs) |->
            [id |-> i - 1,
             paraPrIDRef |-> w.paragraphs[i].para_shape_id,
             runs |-> (IF i = 1 THEN <<SecPrRun>> ELSE <<>>) \o ParagraphRuns(w, i - 1)]]

\* One section: the empty section while body_texts is empty, else the one
\* section push_paragraph created
generate_section_xmls(w) == <<generate_section_xml_with_paragraphs(w)>>

(***************************************************************************)
(* HwpxWriter::write_to: the entries of the package, in the order written  *)
(***************************************************************************)
\* zip.start_file(name, options); zip.write_all(body)
FileEntry(name, method, kind, content) ==
    [name |-> name, dir |-> FALSE, method |-> method,
     body |-> [kind |-> kind, content |-> content]]

\* zip.add_directory(name, deflated)
DirEntry(name) ==
    [name |-> name, dir |-> TRUE, method |-> "Deflated",
     body |-> [kind |-> "none", content |-> <<>>]]

\* A part whose text does not depend on the paragraphs, shapes or images
FixedPart(name) == FileEntry(name, "Deflated", "fixed", <<>>)

MimetypeEntry_Deflated ==
    FileEntry(<<"mimetype">>, "Deflated", "bytes", <<"application/hwp+zip">>)

MimetypeEntry ==
    FileEntry(<<"mimetype">>, "Stored", "bytes", <<"application/hwp+zip">>)

SectionEntries(w) ==
    LET xmls == generate_section_xmls(w) IN
    [i \in 1..Len(xmls) |->
        FileEntry(<<"Contents/section", ToString(i - 1), ".xml">>, "Deflated",
                  "section", xmls[i])]

ImageEntries_ZeroBased(w) ==
    [i \in 1..Len(w.images) |->
        FileEntry(<<"BinData/image", ToString(i - 1), ".",
                    extension(w.images[i].image.format)>>, "Stored", "bytes",
                  w.images[i].image.data)]

ImageEntries(w) ==
    [i \in 1..Len(w.images) |->
        FileEntry(ImagePath(i - 1, w.images[i].image), "Stored", "bytes",
                  w.images[i].image.data)]

write_to(w) ==
    <<MimetypeEntry,
      FixedPart(<<"version.xml">>),
      DirEntry(<<"Contents">>),
      FileEntry(<<"Contents/header.xml">>, "Deflated", "header", generate_header_xml(w))>>
    \o SectionEntries(w)
    \o <<DirEntry(<<"Preview">>),
         FileEntry(<<"Preview/PrvText.txt">>, "Deflated", "text",
                   generate_preview_text(w)),
         DirEntry(<<"Scripts">>),
         FileEntry(<<"Scripts/headerScripts">>, "Deflated", "bytes", <<"FF", "FE">>),
         FileEntry(<<"Scripts/sourceScripts">>, "Deflated", "bytes", <<"FF", "FE">>),
         FixedPart(<<"settings.xml">>),
         DirEntry(<<"META-INF">>),
         FixedPart(<<"META-INF/container.xml">>),
         FixedPart(<<"META-INF/manifest.xml">>),
         FixedPart(<<"META-INF/container.rdf">>),
         FileEntry(<<"Contents/content.hpf">>, "Deflated", "hpf",
                   generate_bin_data_items(w))>>
    \o (IF w.images # <<>>
        THEN <<DirEntry(<<"BinData">>)>> \o ImageEntries(w)
        ELSE <<>>)

to_bytes(w) == write_to(w)

(***************************************************************************)
(* State                                                                   *)
(***************************************************************************)
VARIABLES
    \* parse_html_table (jsontohwpx/table.rs)
    pc,             \* position in parse_html_table
    trs,            \* the <tr> elements scanned so far, as written in the markup
    cur_tr,         \* the cells of the <tr> being scanned, as written
    row,            \* `row`: the parsed cells of the <tr> being scanned
    parsed_rows,
    col_count,
    max_row,
    grid,
    occupied,
    spans,
    row_idx,
    cell_idx,       \* index (from 1) of the next cell of parsed_rows[row_idx]
    col_cursor,
    placements,     \* history: where each placed cell went
    table,          \* the HwpxTable built, or the one the API calls act on
    result,         \* the Result returned
    api_calls,      \* number of HwpxTable API calls made so far
    \* HwpxWriter (hwpx/writer.rs)
    writer,         \* the HwpxWriter
    archive,        \* the entries write_to has written, in physical order
    \* convert (jsontohwpx/converter.rs)
    doc,            \* the ArticleDocument and ConvertOptions given
    conv_pc,        \* position in convert
    conv_idx,       \* index (from 1) of the next content item
    has_prev,
    conv_result,    \* the Result returned
    \* HwpxImage::from_bytes (hwpx/writer.rs)
    img_pc,         \* position: "idle", "load" (bytes given), "done"
    img_data,       \* the bytes given
    img_px,         \* `(w_px, h_px)` of read_dimensions_mm
    img_result,     \* the Option<HwpxImage> returned
    \* read_jpeg_dimensions (hwpx/writer.rs), one loop iteration at a time
    scan_pc,        \* position: "idle", "loop", "done"
    scan_i,         \* `i`
    scan_reads,     \* history: the indices of `data` read so far
    scan_out,       \* the pair returned
    \* style encoding: to_char_shape + add_char_shape (hwpx/writer.rs)
    shape_count,    \* doc_info.char_shapes.len()
    enc_calls,      \* the encoding calls made: style given, record appended, id returned
    \* async job system (jsontohwpx/api, bin/jsontohwpx_api.rs)
    serving,        \* the server has built its state and spawned workers and cleanup
    worker_count,   \* ServerConfig.worker_count
    expiry_hours,   \* ServerConfig.file_expiry_hours
    jobs,           \* JobStore.jobs, by job id
    req,            \* position of the convert_async request that creates job id j
    queue,          \* the ConvertJobs buffered in the mpsc channel, by job id
    wk,             \* per worker: position in the worker loop, job held, outcome
    active_workers, \* JobQueue.active_workers
    files,          \* output files on disk, by job id
    now,            \* Utc::now(), in hours since the server started
    last_cleanup,   \* when the cleanup task last started to sleep
    recv_count,     \* history: per job id, the times a worker received it
    proc_count,     \* history: per job id, the set_processing calls made for it
    resp            \* the last response of get_job / download_job

tableVars == <<pc, trs, cur_tr, row, parsed_rows, col_count, max_row, grid, occupied,
               spans, row_idx, cell_idx, col_cursor, placements, table, result,
               api_calls>>

writerVars == <<writer, archive>>

convVars == <<doc, conv_pc, conv_idx, has_prev, conv_result>>

scanVars == <<scan_pc, scan_i, scan_reads, scan_out>>

imageVars == <<img_pc, img_data, img_px, img_result, scanVars>>

encVars == <<shape_count, enc_calls>>

jobVars == <<serving, worker_count, expiry_hours, jobs, req, queue, wk, active_workers,
             files, now, last_cleanup, recv_count, proc_count, resp>>

vars == <<tableVars, writerVars, convVars, imageVars, encVars, jobVars>>

(***************************************************************************)
(* Inputs                                                                  *)
(***************************************************************************)
CellTexts == {<<"a">>, <<" ", "b", " ">>}

RawCells == [text : CellTexts, col_span : 1..MaxSpan, row_span : 1..MaxSpan]

\* The <td rowspan=2>G</td><td>A</td> / <td>B</td> markup of the scenario
ScenarioTrs ==
    << << [text |-> <<"a">>, col_span |-> 1, row_span |-> 2],
          [text |-> <<" ", "b", " ">>, col_span |-> 1, row_span |-> 1] >>,
       << [text |-> <<"a">>, col_span |-> 1, row_span |-> 1] >> >>

(***************************************************************************)
(* parse_html_table as a state machine                                     *)
(***************************************************************************)
TableStart(p, t) ==
    /\ pc = p
    /\ trs = <<>> /\ cur_tr = <<>> /\ row = <<>> /\ parsed_rows = <<>>
    /\ col_count = 0 /\ max_row = 0
    /\ grid = <<>> /\ occupied = <<>> /\ spans = <<>>
    /\ row_idx = 0 /\ cell_idx = 1 /\ col_cursor = 0
    /\ placements = <<>>
    /\ table = t
    /\ result = NoResult
    /\ api_calls = 0

\* let mut writer = HwpxWriter::new(); nothing serialized yet
WriterStart ==
    /\ writer = HwpxWriter_new
    /\ archive = <<>>

NoDoc == [article_id |-> <<>>, title |-> [some |-> FALSE, value |-> <<>>],
          include_header |-> FALSE, contents |-> <<>>]

ConvStart(d, p) ==
    /\ doc = d
    /\ conv_pc = p
    /\ conv_idx = 1
    /\ has_prev = FALSE
    /\ conv_result = NoResult

\* The bytes handed to HwpxImage::from_bytes; nothing returned yet
ImageStart(data, p) ==
    /\ img_pc = p
    /\ img_data = data
    /\ img_px = <<None, None>>
    /\ img_result = NoImage
    /\ scan_pc = IF p = "load" THEN "loop" ELSE "idle"
    /\ scan_i = 2
    /\ scan_reads = {}
    /\ scan_out = <<None, None>>

\* the shape table holds n records and no encoding call is logged
EncStart(n) ==
    /\ shape_count = n
    /\ enc_calls = <<>>

JobIds == 1..MaxJobs

Workers == 1..MaxWorkers

\* Option<String>
NoneStr == [some |-> FALSE, value |-> ""]

\* no entry in JobStore.jobs under an id
AbsentJob ==
    [present |-> FALSE, status |-> "none", created_at |-> 0, completed_at |-> None,
     file_path |-> None, atcl_id |-> NoneStr, error_message |-> NoneStr]

IdleWorker == [pc |-> "recv", job |-> 0, outcome |-> "none"]

NoResponse == [op |-> "none", id |-> 0, code |-> 0, status |-> "none", download_url |-> FALSE]

\* build_state with the ServerConfig given (up) or no server at all
JobStart(up, n, eh) ==
    /\ serving = up
    /\ worker_count = n
    /\ expiry_hours = eh
    /\ jobs = [j \in JobIds |-> AbsentJob]
    /\ req = [j \in JobIds |-> IF up THEN "new" ELSE "off"]
    /\ queue = <<>>
    /\ wk = [w \in Workers |-> IdleWorker]
    /\ active_workers = 0
    /\ files = {}
    /\ now = 0
    /\ last_cleanup = 0
    /\ recv_count = [j \in JobIds |-> 0]
    /\ proc_count = [j \in JobIds |-> 0]
    /\ resp = NoResponse

RECURSIVE CountCells(_)
CountCells(rows) == IF rows = <<>> THEN 0 ELSE Len(Head(rows)) + CountCells(Tail(rows))

\* for cell in tr.select(&cell_selector): row.push(ParsedCell {..})
ScanCell(raw) ==
    /\ pc = "scan"
    /\ Len(trs) < MaxRows
    /\ CountCells(trs) + Len(cur_tr) < MaxCells
    /\ cur_tr' = Append(cur_tr, raw)
    /\ row' = Append(row, ParseCell(raw))
    /\ UNCHANGED <<pc, trs, parsed_rows, col_count, max_row, grid, occupied, spans,
                   row_idx, cell_idx, col_cursor, placements, table, result, api_calls, writerVars, convVars, imageVars, encVars, jobVars>>

\* End of one <tr>: if !row.is_empty() { parsed_rows.push(row) }
EndTr ==
    /\ pc = "scan"
    /\ Len(trs) < MaxRows
    /\ trs' = Append(trs, cur_tr)
    /\ cur_tr' = <<>>
    /\ row' = <<>>
    /\ parsed_rows' = IF row # <<>> THEN Append(parsed_rows, row) ELSE parsed_rows
    /\ UNCHANGED <<pc, col_count, max_row, grid, occupied, spans,
                   row_idx, cell_idx, col_cursor, placements, table, result, api_calls, writerVars, convVars, imageVars, encVars, jobVars>>

\* No more <tr>, and parsed_rows.is_empty(): return Err(Conversion)
NoRows ==
    /\ pc = "scan"
    /\ cur_tr = <<>>
    /\ parsed_rows = <<>>
    /\ pc' = "done"
    /\ result' = NoRowsError
    /\ UNCHANGED <<trs, cur_tr, row, parsed_rows, col_count, max_row, grid, occupied,
                   spans, row_idx, cell_idx, col_cursor, placements, table, api_calls, writerVars, convVars, imageVars, encVars, jobVars>>

\* No more <tr>: grid dimensions, empty grid and occupancy bitmap
Dimensions ==
    /\ pc = "scan"
    /\ cur_tr = <<>>
    /\ parsed_rows # <<>>
    /\ LET st == PlaceInit(parsed_rows) IN
        /\ col_count' = st.col_count
        /\ max_row' = st.max_row
        /\ grid' = st.grid
        /\ occupied' = st.occupied
        /\ spans' = st.spans
    /\ row_idx' = 0
    /\ cell_idx' = 1
    /\ col_cursor' = 0
    /\ pc' = "place"
    /\ UNCHANGED <<trs, cur_tr, row, parsed_rows, placements, table, result, api_calls, writerVars, convVars, imageVars, encVars, jobVars>>

PlaceState ==
    [col_count |-> col_count, max_row |-> max_row, grid |-> grid,
     occupied |-> occupied, spans |-> spans, col_cursor |-> col_cursor,
     brk |-> FALSE, panic |-> FALSE]

CurrentRow == At(parsed_rows, row_idx)

\* One iteration of `for cell in parsed_row` that places its cell
PlaceCell ==
    /\ pc = "place"
    /\ row_idx < Len(parsed_rows)
    /\ cell_idx <= Len(CurrentRow)
    /\ LET st == PlaceCellStep(PlaceState, row_idx, CurrentRow[cell_idx]) IN
        /\ ~st.brk
        /\ grid' = st.grid
        /\ occupied' = st.occupied
        /\ spans' = st.spans
        /\ col_cursor' = st.col_cursor
        /\ pc' = IF st.panic THEN "panic" ELSE "place"
        /\ placements' =
              IF st.panic
              THEN placements
              ELSE Append(placements,
                     [row |-> row_idx, idx |-> cell_idx, cursor |-> col_cursor,
                      col |-> NextFree(At(occupied, row_idx), col_cursor, col_count)])
    /\ cell_idx' = cell_idx + 1
    /\ UNCHANGED <<trs, cur_tr, row, parsed_rows, col_count, max_row, row_idx, table,
                   result, api_calls, writerVars, convVars, imageVars, encVars, jobVars>>

\* if col_cursor >= col_count { break }: the rest of the row is dropped
DropRest ==
    /\ pc = "place"
    /\ row_idx < Len(parsed_rows)
    /\ cell_idx <= Len(CurrentRow)
    /\ PlaceCellStep(PlaceState, row_idx, CurrentRow[cell_idx]).brk
    /\ row_idx' = row_idx + 1
    /\ cell_idx' = 1
    /\ col_cursor' = 0
    /\ UNCHANGED <<pc, trs, cur_tr, row, parsed_rows, col_count, max_row, grid, occupied,
                   spans, placements, table, result, api_calls, writerVars, convVars, imageVars, encVars, jobVars>>

\* The row's cells are exhausted: next row, col_cursor = 0
NextRow ==
    /\ pc = "place"
    /\ row_idx < Len(parsed_rows)
    /\ cell_idx > Len(CurrentRow)
    /\ row_idx' = row_idx + 1
    /\ cell_idx' = 1
    /\ col_cursor' = 0
    /\ UNCHANGED <<pc, trs, cur_tr, row, parsed_rows, col_count, max_row, grid, occupied,
                   spans, placements, table, result, api_calls, writerVars, convVars, imageVars, encVars, jobVars>>

\* HwpxTable::from_data(data), set_cell_span for every recorded span, Ok(table)
Build ==
    /\ pc = "place"
    /\ row_idx >= Len(parsed_rows)
    /\ table' = BuildTable(grid, spans)
    /\ result' = OkResult
    /\ pc' = "done"
    /\ UNCHANGED <<trs, cur_tr, row, parsed_rows, col_count, max_row, grid, occupied,
                   spans, row_idx, cell_idx, col_cursor, placements, api_calls, writerVars, convVars, imageVars, encVars, jobVars>>

TableInit ==
    /\ TableStart("scan", NoTable)
    /\ WriterStart
    /\ ConvStart(NoDoc, "idle")
    /\ ImageStart(<<>>, "idle")
    /\ EncStart(0)
    /\ JobStart(FALSE, 0, 0)

TableNext ==
    \/ \E raw \in RawCells : ScanCell(raw)
    \/ EndTr
    \/ NoRows
    \/ Dimensions
    \/ PlaceCell
    \/ DropRest
    \/ NextRow
    \/ Build

SpecTable == TableInit /\ [][TableNext]_vars

(***************************************************************************)
(* HwpxTable driven through its public API                                 *)
(***************************************************************************)
ApiInit ==
    /\ \E nr, nc \in 1..MaxGrid : TableStart("api", HwpxTable_new(nr, nc))
    /\ WriterStart
    /\ ConvStart(NoDoc, "idle")
    /\ ImageStart(<<>>, "idle")
    /\ EncStart(0)
    /\ JobStart(FALSE, 0, 0)

ApiUnchanged ==
    UNCHANGED <<pc, trs, cur_tr, row, parsed_rows, col_count, max_row, grid, occupied,
                spans, row_idx, cell_idx, col_cursor, placements, result,
                writerVars, convVars, imageVars, encVars, jobVars>>

ApiSetCell(r, c, value) ==
    /\ pc = "api"
    /\ api_calls < MaxCalls
    /\ table' = set_cell(table, r, c, value)
    /\ api_calls' = api_calls + 1
    /\ ApiUnchanged

ApiSetCellSpan(r, c, col_span, row_span) ==
    /\ pc = "api"
    /\ api_calls < MaxCalls
    /\ table' = set_cell_span(table, r, c, col_span, row_span)
    /\ api_calls' = api_calls + 1
    /\ ApiUnchanged

ApiNext ==
    \/ \E r, c \in 0..MaxGrid, value \in {<<"a">>} : ApiSetCell(r, c, value)
    \/ \E r, c \in 0..MaxGrid, cs, rs \in 0..MaxSpan : ApiSetCellSpan(r, c, cs, rs)

SpecApi == ApiInit /\ [][ApiNext]_vars

(***************************************************************************)
(* HwpxWriter driven through its builder operations, then serialized       *)
(***************************************************************************)
Texts == {<<>>, <<"a">>, <<"<", "b">>}

BoldStyle == [StyleDefault EXCEPT !.bold = TRUE]

Styles == {StyleDefault, BoldStyle,
           [StyleDefault EXCEPT !.has_size = TRUE, !.font_size = 12, !.italic = TRUE]}

\* "U+D55C" is one character that takes three bytes in UTF-8
MixedRunLists ==
    {<<[text |-> <<"a">>, style |-> BoldStyle], [text |-> <<"b">>, style |-> StyleDefault]>>,
     <<[text |-> <<"U+D55C", "a">>, style |-> StyleDefault],
       [text |-> <<>>, style |-> BoldStyle],
       [text |-> <<"b">>, style |-> BoldStyle]>>}

WriterTables ==
    {from_data(<<<<<<"x">>>>>>),
     set_cell_span(from_data(<<<<<<"x">>, <<>>>>>>), 0, 0, 2, 1),
     set_cell_span(from_data(<<<<<<"x">>, <<"y">>, <<"z">>>>,
                             <<<<>>, <<"<">>, <<"w">>>>>>), 0, 0, 1, 2)}

WriterImages == {[format |-> f, data |-> <<f>>] : f \in {"Png", "Jpeg"}}

LinkLists == {<<[text |-> <<"b">>, url |-> <<"u", "&">>]>>}

LinkTexts == {<<"a", "b", "c">>, <<"U+D55C", "a", "b", "c">>}

WriterInit ==
    /\ TableStart("idle", NoTable)
    /\ WriterStart
    /\ ConvStart(NoDoc, "idle")
    /\ ImageStart(<<>>, "idle")
    /\ EncStart(0)
    /\ JobStart(FALSE, 0, 0)

\* The builder is used before the document is serialized
CanAdd ==
    /\ conv_pc = "idle"
    /\ archive = <<>>
    /\ current_paragraph_count(writer) < MaxParas

Built(w) ==
    /\ writer' = w
    /\ UNCHANGED <<archive, tableVars, convVars, imageVars, encVars, jobVars>>

AddParagraph(text) == CanAdd /\ Built(add_paragraph(writer, text))

AddStyledParagraph(text, style) ==
    CanAdd /\ Built(add_styled_paragraph(writer, text, style))

AddMixedStyledParagraph(runs) ==
    CanAdd /\ Built(add_mixed_styled_paragraph(writer, runs))

AddTable(t) == CanAdd /\ Built(add_table(writer, t))

AddImage(image) == CanAdd /\ Built(add_image(writer, image))

AddParagraphWithHyperlinks(text, links) ==
    CanAdd /\ Built(add_paragraph_with_hyperlinks(writer, text, links))

ToBytes ==
    /\ conv_pc = "idle"
    /\ archive = <<>>
    /\ archive' = to_bytes(writer)
    /\ UNCHANGED <<writer, tableVars, convVars, imageVars, encVars, jobVars>>

WriterNext ==
    \/ \E text \in Texts : AddParagraph(text)
    \/ \E text \in {<<"a">>, <<"<", "b">>}, style \in Styles : AddStyledParagraph(text, style)
    \/ \E runs \in MixedRunLists : AddMixedStyledParagraph(runs)
    \/ \E t \in WriterTables : AddTable(t)
    \/ \E image \in WriterImages : AddImage(image)
    \/ \E text \in LinkTexts, links \in LinkLists : AddParagraphWithHyperlinks(text, links)
    \/ ToBytes

SpecWriter == WriterInit /\ [][WriterNext]_vars

(***************************************************************************)
(* convert                                                                 *)
(***************************************************************************)
\* value.split('\n'): the lines of value; `line` is the line being read
RECURSIVE Split(_, _)
Split(value, line) ==
    IF value = <<>> THEN <<line>>
    ELSE IF Head(value) = "\n" THEN <<line>> \o Split(Tail(value), <<>>)
    ELSE Split(Tail(value), Append(line, Head(value)))

RECURSIVE AddLines(_, _)
AddLines(w, lines) ==
    IF lines = <<>> THEN w ELSE AddLines(add_paragraph(w, Head(lines)), Tail(lines))

add_text_paragraphs(w, value) == AddLines(w, Split(value, <<>>))

add_separator_paragraph(w) == add_paragraph(w, <<>>)

\* Of the header fields only the title is given in the model's documents; its
\* label and the rule line are stood for by short ASCII texts.
add_header_section(w, d) ==
    LET w1 == IF d.title.some
              THEN add_mixed_styled_paragraph(w,
                      <<[text |-> <<"T", ":", " ">>, style |-> BoldStyle],
                        [text |-> d.title.value, style |-> StyleDefault]>>)
              ELSE w
    IN add_paragraph(add_paragraph(w1, <<"-", "-">>), <<>>)

\* Content::Text / Content::Image / Content::Table.  For an image, `sniffed` is
\* the format HwpxImage::from_bytes finds in the loaded bytes, or "None" when
\* loading, decoding or sniffing fails.
Content(type, value, source, sniffed, rows) ==
    [type |-> type, value |-> value, source |-> source, sniffed |-> sniffed,
     trs |-> rows]

TextItems == {Content("text", v, "none", "None", <<>>) : v \in {<<"a">>, <<"a", "\n", "b">>}}

ImageItems ==
    {Content("image", <<>>, "base64", "Png", <<>>),
     Content("image", <<>>, "url", "None", <<>>),
     Content("image", <<>>, "none", "None", <<>>)}

TableItems ==
    {Content("table", <<>>, "none", "None", rows) :
        rows \in {<<>>, <<<<>>>>,
                  <<<<[text |-> <<"a">>, col_span |-> 1, row_span |-> 1]>>>>,
                  ScenarioTrs}}

ContentItems == TextItems \cup ImageItems \cup TableItems

Docs ==
    [article_id : {<<"A">>, <<" ", "A">>, <<" ">>, <<>>},
     title : {[some |-> FALSE, value |-> <<>>], [some |-> TRUE, value |-> <<"t">>]},
     include_header : BOOLEAN,
     contents : UNION {[1..n -> ContentItems] : n \in 0..MaxContents}]

ConvInit ==
    /\ TableStart("idle", NoTable)
    /\ WriterStart
    /\ \E d \in Docs : ConvStart(d, "start")
    /\ ImageStart(<<>>, "idle")
    /\ EncStart(0)
    /\ JobStart(FALSE, 0, 0)

\* input.validate()? fails
ConvInvalid ==
    /\ conv_pc = "start"
    /\ Trim(doc.article_id) = <<>>
    /\ conv_result' = Err("Input", "article_id")
    /\ conv_pc' = "done"
    /\ UNCHANGED <<doc, conv_idx, has_prev, writerVars, tableVars, imageVars, encVars, jobVars>>

\* Mutant: the document is converted without validation.
ConvBegin_NoValidate ==
    /\ conv_pc = "start"
    /\ writer' = IF doc.include_header THEN add_header_section(HwpxWriter_new, doc)
                 ELSE HwpxWriter_new
    /\ conv_pc' = "items"
    /\ UNCHANGED <<doc, conv_idx, has_prev, conv_result, archive, tableVars, imageVars, encVars, jobVars>>

\* validate, HwpxWriter::new(), metadata, the optional header section
ConvBegin ==
    /\ conv_pc = "start"
    /\ Trim(doc.article_id) # <<>>
    /\ writer' = IF doc.include_header THEN add_header_section(HwpxWriter_new, doc)
                 ELSE HwpxWriter_new
    /\ conv_pc' = "items"
    /\ UNCHANGED <<doc, conv_idx, has_prev, conv_result, archive, tableVars, imageVars, encVars, jobVars>>

CurrentItem == doc.contents[conv_idx]

InLoop(type) ==
    /\ conv_pc = "items"
    /\ conv_idx <= Len(doc.contents)
    /\ CurrentItem.type = type

\* if has_prev { add_separator_paragraph }
Separated == IF has_prev THEN add_separator_paragraph(writer) ELSE writer

ItemDone(w) ==
    /\ writer' = w
    /\ conv_idx' = conv_idx + 1
    /\ has_prev' = TRUE
    /\ UNCHANGED <<doc, conv_pc, conv_result, archive, tableVars, imageVars, encVars, jobVars>>

\* The `?` of the loop body: convert returns the error
ItemFailed(w, e) ==
    /\ writer' = w
    /\ conv_result' = e
    /\ conv_pc' = "done"
    /\ UNCHANGED <<doc, conv_idx, has_prev, archive, tableVars, imageVars, encVars, jobVars>>

ConvText ==
    /\ InLoop("text")
    /\ ItemDone(add_text_paragraphs(Separated, CurrentItem.value))

ConvImage ==
    /\ InLoop("image")
    /\ IF CurrentItem.source = "none"
       THEN ItemDone(Separated)
       ELSE IF CurrentItem.sniffed = "None"
       THEN ItemFailed(Separated, Err("Conversion", "image"))
       ELSE ItemDone(add_image(Separated, [format |-> CurrentItem.sniffed,
                                           data |-> <<CurrentItem.sniffed>>]))

ConvTable ==
    /\ InLoop("table")
    /\ LET r == parse_html_table(CurrentItem.trs) IN
       IF r.panic
       THEN /\ conv_pc' = "panic"
            /\ UNCHANGED <<doc, conv_idx, has_prev, conv_result, writerVars, tableVars, imageVars, encVars, jobVars>>
       ELSE IF IsErr(r.result)
       THEN ItemFailed(Separated, r.result)
       ELSE ItemDone(add_table(Separated, r.table))

\* let bytes = writer.to_bytes()?; Ok(bytes)
ConvFinish ==
    /\ conv_pc = "items"
    /\ conv_idx > Len(doc.contents)
    /\ archive' = to_bytes(writer)
    /\ conv_result' = OkResult
    /\ conv_pc' = "done"
    /\ UNCHANGED <<doc, conv_idx, has_prev, writer, tableVars, imageVars, encVars, jobVars>>

ConvNext ==
    \/ ConvInvalid
    \/ ConvBegin
    \/ ConvText
    \/ ConvImage
    \/ ConvTable
    \/ ConvFinish

SpecConvert == ConvInit /\ [][ConvNext]_vars

(***************************************************************************)
(* HwpxImage::from_bytes on header buffers                                 *)
(***************************************************************************)
RECURSIVE Flatten(_)
Flatten(ss) == IF ss = <<>> THEN <<>> ELSE Head(ss) \o Flatten(Tail(ss))

Prefixes(b) == {SubSeq(b, 1, n) : n \in 0..Len(b)}

\* 8-byte signature, chunk length, "IHDR", width, height, bit depth
PngBuffers ==
    {<<137, 80, 78, 71, 13, 10, 26, 10, 0, 0, 0, 13, 73, 72, 68, 82>> \o w \o h \o <<8>> :
        w \in {<<0, 0, 1, 0>>, <<0, 0, 0, 0>>, <<0, 0, 0, 1>>, <<0, 2, 3, 4>>},
        h \in {<<0, 0, 0, 2>>, <<0, 0, 0, 0>>, <<0, 1, 0, 0>>}}

\* "GIF89a", width, height, flags
GifBuffers ==
    {<<71, 73, 70, 56, 57, 97>> \o w \o h \o <<0>> :
        w \in {<<0, 1>>, <<2, 0>>, <<0, 0>>}, h \in {<<3, 0>>, <<1, 2>>}}

\* "BM", file size, reserved, data offset, header size, width, height, planes
BmpBuffers ==
    {<<66, 77, 70, 0, 0, 0, 0, 0, 0, 0, 54, 0, 0, 0, 40, 0, 0, 0>> \o w \o h \o <<1, 0>> :
        w \in {<<1, 2, 0, 0>>, <<255, 255, 255, 255>>, <<0, 0, 0, 0>>, <<254, 255, 255, 255>>},
        h \in {<<2, 0, 0, 0>>, <<0, 255, 255, 255>>}}

\* Segments other than the frame header: marker, 2-byte length, payload.  The
\* payload of the third holds the bytes FF C0.
JpegSegments == {<<255, 224, 0, 4, 1, 2>>, <<255, 219, 0, 2>>, <<255, 225, 0, 4, 255, 192>>}

\* Frame header: FF C0 / FF C2, length, precision, height, width, components
JpegFrames ==
    {<<255, m, 0, 11, 8>> \o hw[1] \o hw[2] \o <<1>> :
        m \in {192, 194}, hw \in {<<<<1, 2>>, <<0, 3>>>>, <<<<0, 0>>, <<0, 16>>>>}}

JpegBuffers ==
    {<<255, 216>> \o Flatten(segs) \o frame :
        segs \in UNION {[1..n -> JpegSegments] : n \in 0..MaxSegments},
        frame \in JpegFrames}

OtherBuffers == {<<0, 1, 2, 3, 4, 5, 6, 7, 8>>, <<255, 216, 0, 1, 2, 3, 4, 5, 6, 7>>}

\* JPEG streams whose first segment declares length 0, a length beyond the
\* end of the buffer, or a length that ends inside the frame header
MalformedJpegs ==
    {<<255, 216, 255, 219, 0, 0, 255, 192, 0, 11, 8, 0, 1, 0, 2, 1>>,
     <<255, 216, 255, 224, 255, 255, 1, 2, 255, 192, 0, 11, 8, 0, 1, 0, 2, 1>>,
     <<255, 216, 255, 224, 0, 4, 255, 192, 0, 11, 8, 0, 1, 0, 2, 1>>,
     <<255, 216, 255, 255, 255, 255, 255, 255>>}

ImageBuffers ==
    UNION {Prefixes(b) :
        b \in PngBuffers \cup GifBuffers \cup BmpBuffers \cup JpegBuffers \cup OtherBuffers
                 \cup MalformedJpegs}

ImageInit ==
    /\ TableStart("idle", NoTable)
    /\ WriterStart
    /\ ConvStart(NoDoc, "idle")
    /\ \E data \in ImageBuffers : ImageStart(data, "load")
    /\ EncStart(0)
    /\ JobStart(FALSE, 0, 0)

\* HwpxImage::from_bytes(data)
FromBytes ==
    /\ img_pc = "load"
    /\ img_result' = HwpxImage_from_bytes(img_data)
    /\ img_px' = IF HwpxImageFormat_from_bytes(img_data) = "None"
                 THEN <<None, None>>
                 ELSE ReadPx(img_data, HwpxImageFormat_from_bytes(img_data))
    /\ img_pc' = "done"
    /\ UNCHANGED <<img_data, scanVars, tableVars, writerVars, convVars, encVars, jobVars>>

\* read_jpeg_dimensions(data): one iteration of the loop
ScanStep ==
    /\ scan_pc = "loop"
    /\ scan_i + 1 < Len(img_data)
    /\ LET step == JpegStep(img_data, scan_i) IN
         /\ scan_reads' = scan_reads \cup step.reads
         /\ scan_i' = step.i
         /\ scan_pc' = IF step.done THEN "done" ELSE "loop"
         /\ scan_out' = step.out
    /\ UNCHANGED <<img_pc, img_data, img_px, img_result, tableVars, writerVars, convVars,
                   encVars, jobVars>>

\* read_jpeg_dimensions(data): the loop condition fails, `(None, None)`
ScanEnd ==
    /\ scan_pc = "loop"
    /\ ~(scan_i + 1 < Len(img_data))
    /\ scan_pc' = "done"
    /\ scan_out' = <<None, None>>
    /\ UNCHANGED <<scan_i, scan_reads, img_pc, img_data, img_px, img_result, tableVars,
                   writerVars, convVars, encVars, jobVars>>

ImageNext == FromBytes \/ ScanStep \/ ScanEnd

SpecImage == ImageInit /\ [][ImageNext]_vars

\* The scan is a sequential loop: an iteration that can run does run.
SpecImageFair == SpecImage /\ WF_vars(ScanStep) /\ WF_vars(ScanEnd)

(***************************************************************************)
(* Style encoding: HwpxTextStyle::to_char_shape, HwpxWriter::add_char_shape *)
(***************************************************************************)
\* HwpxTextStyle::new() followed by any of size(12), bold(), italic(),
\* underline(), strikethrough(), color(0xFF0000)
EncStyles ==
    {[has_size |-> hs, font_size |-> IF hs THEN 12 ELSE 0, bold |-> b, italic |-> i,
      underline |-> u, strikethrough |-> st, color |-> c] :
        hs \in BOOLEAN, b \in BOOLEAN, i \in BOOLEAN, u \in BOOLEAN, st \in BOOLEAN,
        c \in {0, 16711680}}

\* records in the shape table before the calls that are followed
ShapeCounts == {0, 65534, 65535}

EncInit ==
    /\ TableStart("idle", NoTable)
    /\ WriterStart
    /\ ConvStart(NoDoc, "idle")
    /\ ImageStart(<<>>, "idle")
    /\ \E n \in ShapeCounts : EncStart(n)
    /\ JobStart(FALSE, 0, 0)

\* `let char_shape = style.to_char_shape();
\*  let char_shape_id = self.add_char_shape(char_shape);`
\* of add_styled_paragraph and of each run of add_mixed_styled_paragraph
Encode(style) ==
    /\ Len(enc_calls) < MaxEncodes
    /\ enc_calls' = Append(enc_calls, [style |-> style,
                                       char_shape |-> to_char_shape(style),
                                       position |-> shape_count,
                                       id |-> ShapeId(shape_count)])
    /\ shape_count' = shape_count + 1
    /\ UNCHANGED <<tableVars, writerVars, convVars, imageVars, jobVars>>

EncNext == \E style \in EncStyles : Encode(style)

SpecEncoder == EncInit /\ [][EncNext]_vars

(***************************************************************************)
(* Async jobs: JobStore, JobQueue, convert_async, get_job, download_job,   *)
(* the cleanup task                                                        *)
(***************************************************************************)
\* JobStore::create_job(id) at time t
create_job(js, id, t) ==
    [js EXCEPT ![id] = [present |-> TRUE, status |-> "Queued", created_at |-> t,
                        completed_at |-> None, file_path |-> None, atcl_id |-> NoneStr,
                        error_message |-> NoneStr]]

\* JobStore::set_processing(id)
set_processing(js, id) ==
    IF js[id].present THEN [js EXCEPT ![id].status = "Processing"] ELSE js

\* JobStore::set_completed(id, file_path, atcl_id) at time t
set_completed(js, id, file_path, atcl_id, t) ==
    IF js[id].present
    THEN [js EXCEPT ![id].status = "Completed",
                    ![id].completed_at = Some(t),
                    ![id].file_path = Some(file_path),
                    ![id].atcl_id = Some(atcl_id)]
    ELSE js

\* Mutant: the failure is recorded and the status left as it was.
set_failed_KeepsStatus(js, id, error, t) ==
    IF js[id].present
    THEN [js EXCEPT ![id].completed_at = Some(t), ![id].error_message = Some(error)]
    ELSE js

\* JobStore::set_failed(id, error) at time t
set_failed(js, id, error, t) ==
    IF js[id].present
    THEN [js EXCEPT ![id].status = "Failed",
                    ![id].completed_at = Some(t),
                    ![id].error_message = Some(error)]
    ELSE js

\* `expired_ids` of cleanup_expired at time t: age.num_hours() >= expiry_hours
expired_ids(js, t, eh) == {id \in JobIds : js[id].present /\ t - js[id].created_at >= eh}

\* the output file of job id: output_dir/<job id>.hwpx, named by the job id
OutputFile(id) == id

\* the article id of the request, trimmed
ArticleId == "A"

\* The channel is closed when no receiver is left: with worker_count = 0 no
\* worker task holds the receiver once JobQueue::new returns.
ChannelClosed == worker_count = 0

\* convert_async: the body does not parse or validate, 400
ConvertAsyncInvalid(j) ==
    /\ req[j] = "new"
    /\ \A k \in 1..(j - 1) : req[k] # "new"
    /\ req' = [req EXCEPT ![j] = "bad_request"]
    /\ UNCHANGED <<serving, worker_count, expiry_hours, jobs, queue, wk, active_workers,
                   files, now, last_cleanup, recv_count, proc_count, resp>>
    /\ UNCHANGED <<tableVars, writerVars, convVars, imageVars, encVars>>

\* convert_async: a fresh job id, job_store.create_job
ConvertAsyncCreate(j) ==
    /\ req[j] = "new"
    /\ \A k \in 1..(j - 1) : req[k] # "new"
    /\ jobs' = create_job(jobs, j, now)
    /\ req' = [req EXCEPT ![j] = "created"]
    /\ UNCHANGED <<serving, worker_count, expiry_hours, queue, wk, active_workers,
                   files, now, last_cleanup, recv_count, proc_count, resp>>
    /\ UNCHANGED <<tableVars, writerVars, convVars, imageVars, encVars>>

\* queue.submit: sender.send(job).await on a closed channel returns Err
SubmitClosed(j) ==
    /\ req[j] \in {"created", "waiting"}
    /\ ChannelClosed
    /\ req' = [req EXCEPT ![j] = "submit_err"]
    /\ UNCHANGED <<serving, worker_count, expiry_hours, jobs, queue, wk, active_workers,
                   files, now, last_cleanup, recv_count, proc_count, resp>>
    /\ UNCHANGED <<tableVars, writerVars, convVars, imageVars, encVars>>

\* queue.submit: the channel has room, the job is buffered; convert_async
\* answers 202
SubmitSend(j) ==
    /\ req[j] \in {"created", "waiting"}
    /\ ~ChannelClosed
    /\ Len(queue) < QueueCapacity
    /\ queue' = Append(queue, j)
    /\ req' = [req EXCEPT ![j] = "accepted"]
    /\ UNCHANGED <<serving, worker_count, expiry_hours, jobs, wk, active_workers,
                   files, now, last_cleanup, recv_count, proc_count, resp>>
    /\ UNCHANGED <<tableVars, writerVars, convVars, imageVars, encVars>>

\* queue.submit: the channel is full, sender.send(job).await stays pending
SubmitWait(j) ==
    /\ req[j] = "created"
    /\ ~ChannelClosed
    /\ Len(queue) >= QueueCapacity
    /\ req' = [req EXCEPT ![j] = "waiting"]
    /\ UNCHANGED <<serving, worker_count, expiry_hours, jobs, queue, wk, active_workers,
                   files, now, last_cleanup, recv_count, proc_count, resp>>
    /\ UNCHANGED <<tableVars, writerVars, convVars, imageVars, encVars>>

\* convert_async: submit returned Err, job_store.set_failed and 503
SubmitFailed(j) ==
    /\ req[j] = "submit_err"
    /\ jobs' = set_failed(jobs, j, "queue closed", now)
    /\ req' = [req EXCEPT ![j] = "rejected"]
    /\ UNCHANGED <<serving, worker_count, expiry_hours, queue, wk, active_workers,
                   files, now, last_cleanup, recv_count, proc_count, resp>>
    /\ UNCHANGED <<tableVars, writerVars, convVars, imageVars, encVars>>

\* Mutant: the job received stays in the channel.
Recv_Peek(w) ==
    /\ w <= worker_count
    /\ wk[w].pc = "recv"
    /\ queue # <<>>
    /\ wk' = [wk EXCEPT ![w] = [pc |-> "got", job |-> Head(queue), outcome |-> "none"]]
    /\ recv_count' = [recv_count EXCEPT ![Head(queue)] = Min(@ + 1, 2)]
    /\ UNCHANGED <<serving, worker_count, expiry_hours, jobs, req, queue, active_workers,
                   files, now, last_cleanup, proc_count, resp>>
    /\ UNCHANGED <<tableVars, writerVars, convVars, imageVars, encVars>>

\* worker loop: rx.lock().await, rx.recv().await gives Some(convert_job)
Recv(w) ==
    /\ w <= worker_count
    /\ wk[w].pc = "recv"
    /\ queue # <<>>
    /\ wk' = [wk EXCEPT ![w] = [pc |-> "got", job |-> Head(queue), outcome |-> "none"]]
    /\ queue' = Tail(queue)
    /\ recv_count' = [recv_count EXCEPT ![Head(queue)] = Min(@ + 1, 2)]
    /\ UNCHANGED <<serving, worker_count, expiry_hours, jobs, req, active_workers,
                   files, now, last_cleanup, proc_count, resp>>
    /\ UNCHANGED <<tableVars, writerVars, convVars, imageVars, encVars>>

\* worker loop: active.fetch_add(1), process_job is entered
FetchAdd(w) ==
    /\ wk[w].pc = "got"
    /\ active_workers' = active_workers + 1
    /\ wk' = [wk EXCEPT ![w].pc = "enter"]
    /\ UNCHANGED <<serving, worker_count, expiry_hours, jobs, req, queue,
                   files, now, last_cleanup, recv_count, proc_count, resp>>
    /\ UNCHANGED <<tableVars, writerVars, convVars, imageVars, encVars>>

\* process_job: store.set_processing(&job_id)
SetProcessing(w) ==
    /\ wk[w].pc = "enter"
    /\ jobs' = set_processing(jobs, wk[w].job)
    /\ proc_count' = [proc_count EXCEPT ![wk[w].job] = Min(@ + 1, 2)]
    /\ wk' = [wk EXCEPT ![w].pc = "convert"]
    /\ UNCHANGED <<serving, worker_count, expiry_hours, req, queue, active_workers,
                   files, now, last_cleanup, recv_count, resp>>
    /\ UNCHANGED <<tableVars, writerVars, convVars, imageVars, encVars>>

\* what the spawn_blocking closure of process_job can come to
Outcomes == {"written", "write_failed", "convert_failed", "panic"}

\* process_job: the spawn_blocking closure runs: convert, then fs::write of
\* the output file when convert gave bytes
Convert(w, outcome) ==
    /\ wk[w].pc = "convert"
    /\ files' = IF outcome = "written" THEN files \cup {OutputFile(wk[w].job)} ELSE files
    /\ wk' = [wk EXCEPT ![w].pc = "report", ![w].outcome = outcome]
    /\ UNCHANGED <<serving, worker_count, expiry_hours, jobs, req, queue, active_workers,
                   now, last_cleanup, recv_count, proc_count, resp>>
    /\ UNCHANGED <<tableVars, writerVars, convVars, imageVars, encVars>>

\* process_job: `match result`, set_completed or set_failed
Report(w) ==
    /\ wk[w].pc = "report"
    /\ jobs' = CASE wk[w].outcome = "written" ->
                      set_completed(jobs, wk[w].job, OutputFile(wk[w].job), ArticleId, now)
                 [] wk[w].outcome = "write_failed" ->
                      set_failed(jobs, wk[w].job, "write failed", now)
                 [] wk[w].outcome = "convert_failed" ->
                      set_failed(jobs, wk[w].job, "convert failed", now)
                 [] OTHER -> set_failed(jobs, wk[w].job, "panic", now)
    /\ wk' = [wk EXCEPT ![w].pc = "leave"]
    /\ UNCHANGED <<serving, worker_count, expiry_hours, req, queue, active_workers,
                   files, now, last_cleanup, recv_count, proc_count, resp>>
    /\ UNCHANGED <<tableVars, writerVars, convVars, imageVars, encVars>>

\* Mutant: the counter is left as it is when a job is done.
FetchSub_Skipped(w) ==
    /\ wk[w].pc = "leave"
    /\ wk' = [wk EXCEPT ![w] = IdleWorker]
    /\ UNCHANGED <<serving, worker_count, expiry_hours, jobs, req, queue, active_workers,
                   files, now, last_cleanup, recv_count, proc_count, resp>>
    /\ UNCHANGED <<tableVars, writerVars, convVars, imageVars, encVars>>

\* worker loop: active.fetch_sub(1), back to recv
FetchSub(w) ==
    /\ wk[w].pc = "leave"
    /\ active_workers' = active_workers - 1
    /\ wk' = [wk EXCEPT ![w] = IdleWorker]
    /\ UNCHANGED <<serving, worker_count, expiry_hours, jobs, req, queue,
                   files, now, last_cleanup, recv_count, proc_count, resp>>
    /\ UNCHANGED <<tableVars, writerVars, convVars, imageVars, encVars>>

\* an hour passes
Tick ==
    /\ serving
    /\ now < MaxClock
    /\ now' = now + 1
    /\ UNCHANGED <<serving, worker_count, expiry_hours, jobs, req, queue, wk,
                   active_workers, files, last_cleanup, recv_count, proc_count, resp>>
    /\ UNCHANGED <<tableVars, writerVars, convVars, imageVars, encVars>>

\* cleanup task: sleep(3600 s) is over, cleanup_expired(file_expiry_hours):
\* every expired job is removed and its file_path, when set, deleted
Cleanup ==
    /\ serving
    /\ now >= last_cleanup + 1
    /\ LET expired == expired_ids(jobs, now, expiry_hours) IN
         /\ jobs' = [id \in JobIds |-> IF id \in expired THEN AbsentJob ELSE jobs[id]]
         /\ files' = files \ {jobs[id].file_path.value :
                                 id \in {e \in expired : jobs[e].file_path.some}}
    /\ last_cleanup' = now
    /\ UNCHANGED <<serving, worker_count, expiry_hours, req, queue, wk, active_workers,
                   now, recv_count, proc_count, resp>>
    /\ UNCHANGED <<tableVars, writerVars, convVars, imageVars, encVars>>

\* handlers::get_job
get_job_response(js, id) ==
    IF ~js[id].present
    THEN [op |-> "get_job", id |-> id, code |-> 404, status |-> "none",
          download_url |-> FALSE]
    ELSE [op |-> "get_job", id |-> id, code |-> 200, status |-> js[id].status,
          download_url |-> js[id].status = "Completed"]

\* handlers::download_job
download_job_response(js, fs, id) ==
    [op |-> "download_job", id |-> id,
     code |-> IF ~js[id].present THEN 404
              ELSE IF js[id].status # "Completed" THEN 404
              ELSE IF ~js[id].file_path.some THEN 404
              ELSE IF js[id].file_path.value \notin fs THEN 500
              ELSE 200,
     status |-> js[id].status, download_url |-> FALSE]

\* GET /api/v1/jobs/{id}
GetJob(j) ==
    /\ serving
    /\ resp' = get_job_response(jobs, j)
    /\ UNCHANGED <<serving, worker_count, expiry_hours, jobs, req, queue, wk,
                   active_workers, files, now, last_cleanup, recv_count, proc_count>>
    /\ UNCHANGED <<tableVars, writerVars, convVars, imageVars, encVars>>

\* GET /api/v1/jobs/{id}/download
DownloadJob(j) ==
    /\ serving
    /\ resp' = download_job_response(jobs, files, j)
    /\ UNCHANGED <<serving, worker_count, expiry_hours, jobs, req, queue, wk,
                   active_workers, files, now, last_cleanup, recv_count, proc_count>>
    /\ UNCHANGED <<tableVars, writerVars, convVars, imageVars, encVars>>

\* FILE_EXPIRY_HOURS values followed
ExpiryChoices == {0, 1}

JobsInit ==
    /\ TableStart("idle", NoTable)
    /\ WriterStart
    /\ ConvStart(NoDoc, "idle")
    /\ ImageStart(<<>>, "idle")
    /\ EncStart(0)
    /\ \E n \in 0..MaxWorkers, eh \in ExpiryChoices : JobStart(TRUE, n, eh)

HandlerStep(j) ==
    \/ ConvertAsyncInvalid(j)
    \/ ConvertAsyncCreate(j)
    \/ SubmitClosed(j)
    \/ SubmitSend(j)
    \/ SubmitWait(j)
    \/ SubmitFailed(j)

WorkerStep(w) ==
    \/ Recv(w)
    \/ FetchAdd(w)
    \/ SetProcessing(w)
    \/ \E outcome \in Outcomes : Convert(w, outcome)
    \/ Report(w)
    \/ FetchSub(w)

JobsCoreNext ==
    \/ \E j \in JobIds : HandlerStep(j)
    \/ \E w \in Workers : WorkerStep(w)
    \/ Tick
    \/ Cleanup

JobsNext ==
    \/ JobsCoreNext
    \/ \E j \in JobIds : GetJob(j) \/ DownloadJob(j)

SpecJobs == JobsInit /\ [][JobsNext]_vars

\* Every conversion call comes to an end, every worker task and every request
\* handler that can move is scheduled; nothing is assumed of the clock, the
\* cleanup task or the arrival of requests.
SpecJobsFair ==
    /\ JobsInit
    /\ [][JobsCoreNext]_vars
    /\ \A w \in Workers : WF_vars(WorkerStep(w))
    /\ \A j \in JobIds :
          WF_vars(SubmitClosed(j) \/ SubmitSend(j) \/ SubmitWait(j) \/ SubmitFailed(j))

(***************************************************************************)
(* Claims about parse_html_table                                           *)
(***************************************************************************)
Returned == pc = "done" /\ result = OkResult

NumRows(t) == Len(t.rows)

NumCols(t) == IF t.rows = <<>> THEN 0 ELSE Len(t.rows[1])

GridCoords(t) == {<<r, c>> : r \in 0..(NumRows(t) - 1), c \in 0..(NumCols(t) - 1)}

IsOrigin(t, rc) == rc \in DOMAIN t.cell_spans

IsCovered(t, rc) == rc \in t.covered

IsOrdinary(t, rc) == ~IsOrigin(t, rc) /\ ~IsCovered(t, rc)

ClassesOf(t, rc) ==
    {k \in {"origin", "covered", "ordinary"} :
        \/ k = "origin" /\ IsOrigin(t, rc)
        \/ k = "covered" /\ IsCovered(t, rc)
        \/ k = "ordinary" /\ IsOrdinary(t, rc)}

\* C1: in every table parse_html_table returns, each grid coordinate is in
\* exactly one of the classes origin (span-map key), covered, ordinary; no
\* span-map key is in the covered set.
C1_Partition ==
    Returned =>
        /\ \A rc \in GridCoords(table) : Cardinality(ClassesOf(table, rc)) = 1
        /\ (DOMAIN table.cell_spans) \cap table.covered = {}

\* A returned table with an origin, a covered and an ordinary coordinate, where a
\* later row had to be placed around an earlier row's span.
C1_Witness ==
    /\ Returned
    /\ \E a, b, c \in GridCoords(table) :
          IsOrigin(table, a) /\ IsCovered(table, b) /\ IsOrdinary(table, c)
    /\ \E i \in 1..Len(placements) : placements[i].col > placements[i].cursor

FreeCols == {c \in col_cursor..(col_count - 1) : ~At(At(occupied, row_idx), c)}

SetMin(S) == CHOOSE x \in S : \A y \in S : x <= y

LastPlacement == placements'[Len(placements')]

\* C3: each cell of a row is placed, in source order, at the lowest column at or
\* after the cursor that is free in the occupancy bitmap of that row, and cells
\* are dropped only when no such column is left; the scenario markup gives G at
\* (0,0) spanning 1x2, A at (0,1), B at (1,1) and (1,0) covered.
C3_Placement ==
    /\ [][(pc = "place" /\ placements' # placements) =>
            /\ FreeCols # {}
            /\ LastPlacement.row = row_idx
            /\ LastPlacement.idx = cell_idx
            /\ LastPlacement.col = SetMin(FreeCols)
            /\ At(At(grid', row_idx), LastPlacement.col) = CurrentRow[cell_idx].text
            /\ col_cursor' > LastPlacement.col
            /\ cell_idx' = cell_idx + 1]_vars
    /\ [][(pc = "place" /\ row_idx < Len(parsed_rows) /\ row_idx' # row_idx
            /\ cell_idx <= Len(CurrentRow)) => FreeCols = {}]_vars
    /\ [](Returned /\ trs = ScenarioTrs =>
            /\ table.rows = << << <<"a">>, <<"b">> >>, << <<>>, <<"a">> >> >>
            /\ DOMAIN table.cell_spans = {<<0, 0>>}
            /\ table.cell_spans[<<0, 0>>] = [col_span |-> 1, row_span |-> 2]
            /\ table.covered = {<<1, 0>>})

\* The scenario's table is returned, its second row placed at column 1.
C3_Witness ==
    /\ Returned
    /\ trs = ScenarioTrs
    /\ \E i \in 1..Len(placements) :
          placements[i].row = 1 /\ placements[i].cursor = 0 /\ placements[i].col = 1

SpanInside(t, rc) ==
    /\ rc \in GridCoords(t)
    /\ rc[2] + t.cell_spans[rc].col_span <= NumCols(t)
    /\ rc[1] + t.cell_spans[rc].row_span <= NumRows(t)

PlainRows ==
    /\ trs # <<>>
    /\ \A i \in 1..Len(trs) :
          /\ Len(trs[i]) = Len(trs[1])
          /\ Len(trs[i]) >= 1
          /\ \A j \in 1..Len(trs[i]) : trs[i][j].col_span = 1 /\ trs[i][j].row_span = 1

RawTextGrid == [i \in 1..Len(trs) |-> [j \in 1..Len(trs[i]) |-> trs[i][j].text]]

TrimmedTextGrid ==
    [i \in 1..Len(trs) |-> [j \in 1..Len(trs[i]) |-> Trim(trs[i][j].text)]]

\* C5 as stated: a table composed from N span-free rows of equal cell count
\* has N rows of that cell count, no spans, no covered cells, and its text grid
\* is the original text grid.
C5_RoundTripAsStated ==
    (pc = "done" /\ PlainRows) =>
        /\ result = OkResult
        /\ table.rows = RawTextGrid
        /\ table.cell_spans = EmptyMap
        /\ table.covered = {}

\* C5 amended: for N >= 1 span-free rows of one cell count >= 1 the table has
\* N rows of that cell count, no spans, no covered cells, and its text grid is
\* the original text grid with every cell text whitespace-trimmed.
C5_RoundTrip ==
    (pc = "done" /\ PlainRows) =>
        /\ result = OkResult
        /\ NumRows(table) = Len(trs)
        /\ \A i \in 1..Len(trs) : Len(table.rows[i]) = Len(trs[1])
        /\ table.rows = TrimmedTextGrid
        /\ DOMAIN table.cell_spans = {}
        /\ table.covered = {}

\* A 2-row, span-free table with differing texts was composed.
C5_Witness ==
    /\ Returned
    /\ PlainRows
    /\ Len(trs) >= 2
    /\ \E i, j \in 1..Len(trs) : trs[i][1].text # trs[j][1].text

(***************************************************************************)
(* Claims about the HwpxTable API                                          *)
(***************************************************************************)
\* C6: after any sequence of set_cell and set_cell_span calls every grid
\* coordinate is exactly one of origin (a span-map key, with a span larger than
\* 1x1), covered, ordinary; no coordinate is both a key and covered, and the
\* covered set holds only in-grid coordinates.
C6_ApiPartition ==
    pc = "api" =>
        /\ \A rc \in GridCoords(table) : Cardinality(ClassesOf(table, rc)) = 1
        /\ (DOMAIN table.cell_spans) \cap table.covered = {}
        /\ table.covered \subseteq GridCoords(table)
        /\ \A rc \in DOMAIN table.cell_spans :
              table.cell_spans[rc].col_span > 1 \/ table.cell_spans[rc].row_span > 1

(***************************************************************************)
(* Claims about convert                                                    *)
(***************************************************************************)
ValidId == Trim(doc.article_id) # <<>>

ZeroRowTable(item) == item.type = "table" /\ item.trs = <<>>

ItemConverts(item) ==
    CASE item.type = "text" -> TRUE
      [] item.type = "image" -> item.source = "none" \/ item.sniffed # "None"
      [] OTHER -> ~IsErr(parse_html_table(item.trs).result)

\* The zero-row table that convert reaches: every item before it converts
ReachesZeroRowTable ==
    \E k \in 1..Len(doc.contents) :
        /\ ZeroRowTable(doc.contents[k])
        /\ \A j \in 1..(k - 1) : ItemConverts(doc.contents[j])

HasZeroRowTable == \E k \in 1..Len(doc.contents) : ZeroRowTable(doc.contents[k])

\* C2: table markup with zero rows makes parse_html_table return the
\* Conversion error (exit code 2), without a panic and without a table being
\* added; convert, on a document with a valid article_id, never runs to a
\* panic, and once it has returned it has returned an error of exit code 2 and
\* written no document bytes whenever the contents hold such a table, and that
\* table's own error whenever the items before the table convert.
C2_ZeroRowsAbort ==
    /\ conv_pc # "panic"
    /\ (conv_pc = "done" /\ ValidId /\ HasZeroRowTable) =>
          /\ IsErr(conv_result)
          /\ conv_result.kind = "Conversion"
          /\ exit_code(conv_result.kind) = 2
          /\ archive = <<>>
          /\ writer.tables = SelectSeq(writer.tables, LAMBDA t : t.table.rows # <<>>)
    /\ (conv_pc = "done" /\ ValidId /\ ReachesZeroRowTable) =>
          conv_result = NoRowsError

\* A document whose zero-row table comes after a text, an image and before
\* nothing else has been converted
C2_Witness ==
    /\ conv_pc = "done"
    /\ ValidId
    /\ ReachesZeroRowTable
    /\ Len(doc.contents) >= 2
    /\ ~ZeroRowTable(doc.contents[1])
    /\ conv_result = NoRowsError
    /\ writer.paragraphs # <<>>

(***************************************************************************)
(* Claims about the package HwpxWriter writes                              *)
(***************************************************************************)
Serialized == archive # <<>>

IsImageEntry(e) == ~e.dir /\ e.name[1] = "BinData/image"

\* C7: in every package written, after any builder operations, the first
\* entry is the file `mimetype`, stored uncompressed, with the body
\* application/hwp+zip, no later entry has that name, and every other file
\* entry that is not an image is deflated.
C7_MimetypeFirst ==
    Serialized =>
        /\ archive[1].name = <<"mimetype">>
        /\ ~archive[1].dir
        /\ archive[1].method = "Stored"
        /\ archive[1].body.kind = "bytes"
        /\ archive[1].body.content = <<"application/hwp+zip">>
        /\ \A i \in 2..Len(archive) :
              /\ archive[i].name # <<"mimetype">>
              /\ (~archive[i].dir /\ ~IsImageEntry(archive[i])) =>
                    archive[i].method = "Deflated"

\* A package of a document with text, a table and an image
C7_Witness ==
    /\ Serialized
    /\ conv_pc = "idle"
    /\ writer.images # <<>>
    /\ writer.tables # <<>>
    /\ \E i \in 1..Len(writer.paragraphs) : writer.paragraphs[i].text # <<>>

ExpectedImageEntry(k) ==
    [name |-> <<"BinData/image", ToString(k), ".",
                CASE writer.images[k].image.format = "Png" -> "png"
                  [] writer.images[k].image.format = "Jpeg" -> "jpg"
                  [] writer.images[k].image.format = "Gif" -> "gif"
                  [] OTHER -> "bmp">>,
     dir |-> FALSE,
     method |-> "Stored",
     body |-> [kind |-> "bytes", content |-> writer.images[k].image.data]]

BinDataDirs == {i \in 1..Len(archive) : archive[i].dir /\ archive[i].name = <<"BinData">>}

\* C8: the package has image entries iff an image was attached; they are one
\* per attached image, in attachment order, named BinData/image{k}.{ext} with
\* k from 1 and ext the extension of the image's format, stored uncompressed
\* with the image's bytes, and each comes after the BinData directory entry.
C8_ImageEntries ==
    Serialized =>
        /\ (SelectSeq(archive, IsImageEntry) # <<>>) <=> (writer.images # <<>>)
        /\ SelectSeq(archive, IsImageEntry) =
              [k \in 1..Len(writer.images) |-> ExpectedImageEntry(k)]
        /\ \A i \in 1..Len(archive) :
              IsImageEntry(archive[i]) => \E d \in BinDataDirs : d < i

\* A package with two images of different formats
C8_Witness ==
    /\ Serialized
    /\ Len(writer.images) >= 2
    /\ writer.images[1].image.format # writer.images[2].image.format

Entry(name) == archive[CHOOSE i \in 1..Len(archive) : archive[i].name = name]

HeaderCharPrs == Entry(<<"Contents/header.xml">>).body.content.charProperties

SectionParas == Entry(<<"Contents/section", "0", ".xml">>).body.content

IsDefaultCharPr(cp) ==
    /\ cp.height = 1000
    /\ ~cp.bold
    /\ ~cp.italic
    /\ cp.underline = "NONE"
    /\ cp.strikeout = "NONE"
    /\ cp.textColor = 0

\* A paragraph added by add_paragraph: no style-run list, no attached object
PlainParagraphs ==
    {i \in 1..Len(writer.paragraphs) :
        /\ ~writer.paragraphs[i].has_char_shapes
        /\ get_table_for_paragraph(writer, i - 1) = -1
        /\ get_image_for_paragraph(writer, i - 1) = -1
        /\ get_hyperlinks_for_paragraph(writer, i - 1) = -1}

\* C9: in every package written, each text run of a paragraph added by
\* add_paragraph references a shape id that the shape table of header.xml
\* defines as the default style (10 pt, not bold, italic, underlined or struck,
\* default color), whatever styled paragraphs the document has.
C9_PlainIsDefault ==
    Serialized =>
        \A i \in PlainParagraphs :
            \A r \in 1..Len(SectionParas[i].runs) :
                SectionParas[i].runs[r].kind = "t" =>
                    \E c \in 1..Len(HeaderCharPrs) :
                        /\ HeaderCharPrs[c].id = SectionParas[i].runs[r].charPrIDRef
                        /\ IsDefaultCharPr(HeaderCharPrs[c])

RECURSIVE JoinLines(_)
JoinLines(paras) ==
    IF paras = <<>> THEN <<>>
    ELSE IF Len(paras) = 1 THEN paras[1].text
    ELSE paras[1].text \o <<"\n">> \o JoinLines(Tail(paras))

HasText == \E i \in 1..Len(writer.paragraphs) : writer.paragraphs[i].text # <<>>

\* C10: the preview entry is the paragraph texts in document order with one
\* newline between each two consecutive paragraphs, empty paragraphs
\* included, and a single space when the document has no text.
C10_PreviewJoin ==
    Serialized =>
        Entry(<<"Preview/PrvText.txt">>).body.content =
            IF HasText THEN JoinLines(writer.paragraphs) ELSE <<" ">>

(***************************************************************************)
(* Claims about the table markup                                           *)
(***************************************************************************)
\* The <hp:tbl> written for the k-th attached table
TableCtrl(k) == SectionParas[writer.tables[k].para_idx + 1].runs

TblRuns(k) == SelectSeq(TableCtrl(k), LAMBDA run : run.kind = "tbl")

\* All <hp:tc> of a <hp:tbl>, as (row markup index, cell) pairs
CellsOf(tbl) == UNION {{<<i, j>> : j \in 1..Len(tbl.trs[i])} : i \in 1..Len(tbl.trs)}

SpanOf(t, rc) ==
    IF rc \in DOMAIN t.cell_spans THEN t.cell_spans[rc]
    ELSE [col_span |-> 1, row_span |-> 1]

Sniffed == img_pc = "done"

\* the four magic-byte tests in priority order, applied to the prefix alone
MagicFormat(data) ==
    IF starts_with(data, PngSignature) THEN "Png"
    ELSE IF starts_with(data, JpegSoi) THEN "Jpeg"
    ELSE IF starts_with(data, GifPrefix) THEN "Gif"
    ELSE IF starts_with(data, BmpPrefix) THEN "Bmp"
    ELSE "None"

DetectedFormat == IF img_result.some THEN img_result.format ELSE "None"

\* C12 as stated: every buffer yields the format of the first magic-byte test
\* it satisfies, and None when it satisfies none of the four.
C12_DetectAsStated == Sniffed => DetectedFormat = MagicFormat(img_data)

\* C12: a buffer of at least 8 bytes yields the format of the first
\* magic-byte test it satisfies (PNG signature, JPEG SOI, "GIF", "BM", in that
\* order) and None when it satisfies none; a buffer shorter than 8 bytes
\* yields None whatever its first bytes are.
C12_Detect ==
    Sniffed =>
        DetectedFormat = IF Len(img_data) >= 8 THEN MagicFormat(img_data) ELSE "None"

C12_Witness ==
    /\ Sniffed
    /\ Len(img_data) >= 8
    /\ starts_with(img_data, BmpPrefix)
    /\ img_result.some
    /\ img_result.format = "Bmp"


\* header fields written out byte by byte, offsets counted from 0
Be32At(d, k) ==
    At(d, k) * 16777216 + At(d, k + 1) * 65536 + At(d, k + 2) * 256 + At(d, k + 3)

Le16At(d, k) == At(d, k) + At(d, k + 1) * 256

\* absolute value of the signed little-endian 32-bit field: a field whose top
\* bit is set stands for its value minus 2^32
AbsLe32At(d, k) ==
    IF At(d, k + 3) < 128
    THEN At(d, k) + At(d, k + 1) * 256 + At(d, k + 2) * 65536 + At(d, k + 3) * 16777216
    ELSE (255 - At(d, k)) + (255 - At(d, k + 1)) * 256 + (255 - At(d, k + 2)) * 65536
         + (255 - At(d, k + 3)) * 16777216 + 1

Both(w, h) == <<Some(w), Some(h)>>

\* C13: the pixel size read from a PNG, GIF or BMP buffer is the value of its
\* header bytes: PNG big-endian 32-bit at offsets 16 and 20 (00 00 01 00 at
\* offset 16 is width 256), GIF little-endian 16-bit at offsets 6 and 8, BMP
\* little-endian signed 32-bit at offsets 18 and 22 made absolute; a buffer
\* that ends before these fields has no pixel size.
C13_PixelSizes ==
    Sniffed =>
        /\ DetectedFormat = "Png" =>
              /\ img_px = IF Len(img_data) >= 24
                          THEN Both(Be32At(img_data, 16), Be32At(img_data, 20))
                          ELSE <<None, None>>
              /\ (Len(img_data) >= 24 /\ SubSeq(img_data, 17, 20) = <<0, 0, 1, 0>>)
                     => img_px[1] = Some(256)
        /\ DetectedFormat = "Gif" =>
              img_px = IF Len(img_data) >= 10
                       THEN Both(Le16At(img_data, 6), Le16At(img_data, 8))
                       ELSE <<None, None>>
        /\ DetectedFormat = "Bmp" =>
              /\ img_px = IF Len(img_data) >= 26
                          THEN Both(AbsLe32At(img_data, 18), AbsLe32At(img_data, 22))
                          ELSE <<None, None>>
              /\ (Len(img_data) >= 26 /\ SubSeq(img_data, 19, 22) = <<254, 255, 255, 255>>)
                     => img_px[1] = Some(2)

C13_Witness ==
    /\ Sniffed
    /\ img_result.some
    /\ img_result.format = "Png"
    /\ Len(img_data) >= 24
    /\ SubSeq(img_data, 17, 20) = <<0, 0, 1, 0>>
    /\ img_px[1] = Some(256)


SegmentLists == UNION {[1..n -> JpegSegments] : n \in 0..MaxSegments}

IsPrefix(a, b) == Len(a) <= Len(b) /\ SubSeq(b, 1, Len(a)) = a

\* the buffer is the first bytes of SOI, the segments segs and the frame header
JpegLayout(segs, frame) == IsPrefix(img_data, <<255, 216>> \o Flatten(segs) \o frame)

\* offset of the frame header's FF byte behind the segments segs
FrameOffset(segs) == 2 + Len(Flatten(segs))

FrameSize(frame) ==
    Both(At(frame, 7) * 256 + At(frame, 8), At(frame, 5) * 256 + At(frame, 6))

\* C14 as stated: behind any segments the frame header's size is returned
\* whenever all bytes of its height and width fields (offsets 5..8 from the
\* marker) are in the buffer, and no size otherwise.
C14_ScanAsStated ==
    (Sniffed /\ DetectedFormat = "Jpeg") =>
        \A segs \in SegmentLists, frame \in JpegFrames :
            JpegLayout(segs, frame) =>
                img_px = IF Len(img_data) >= FrameOffset(segs) + 9
                         THEN FrameSize(frame)
                         ELSE <<None, None>>

\* C14: the scan from offset 2 skips every segment before the frame header
\* (FF C0 or FF C2) by its big-endian length field and returns the header's
\* big-endian 16-bit height and width when the buffer holds at least 10 bytes
\* from the marker on, one byte more than the two fields need; in a shorter
\* buffer no size is returned.
C14_Scan ==
    (Sniffed /\ DetectedFormat = "Jpeg") =>
        \A segs \in SegmentLists, frame \in JpegFrames :
            JpegLayout(segs, frame) =>
                img_px = IF Len(img_data) >= FrameOffset(segs) + 10
                         THEN FrameSize(frame)
                         ELSE <<None, None>>

C14_Witness ==
    /\ Sniffed
    /\ img_result.format = "Jpeg"
    /\ \E segs \in SegmentLists, frame \in JpegFrames :
          /\ Len(segs) = 3
          /\ segs[2] = <<255, 225, 0, 4, 255, 192>>
          /\ img_data = <<255, 216>> \o Flatten(segs) \o frame
    /\ img_px = Both(3, 258)


\* round(px x 25.4 / 96), halves upwards, at least 1
ClampedMm(px) == Max((px * 254 + 480) \div 960, 1)

Flag(b) == IF b THEN 1 ELSE 0

\* the font size in points; 10 when the style names none
PointsOf(style) == IF style.has_size THEN style.font_size ELSE 10

C17_IdIsPosition ==
    /\ \A k \in 1..Len(enc_calls) :
          /\ enc_calls[k].id = enc_calls[k].position
          /\ k > 1 => enc_calls[k].position = enc_calls[k - 1].position + 1
    /\ enc_calls # <<>> => shape_count = enc_calls[Len(enc_calls)].position + 1
    /\ \A j, k \in 1..Len(enc_calls) : j # k => enc_calls[j].id # enc_calls[k].id


(***************************************************************************)
(* Claims about the builder operations                                     *)
(***************************************************************************)
\* characters of the texts of the first n runs
RECURSIVE CharsOfRuns(_, _)
CharsOfRuns(runs, n) ==
    IF n = 0 THEN 0 ELSE CharsOfRuns(runs, n - 1) + Len(runs[n].text)

LastParagraph(w) == w.paragraphs[Len(w.paragraphs)]

\* C18: the paragraph that add_mixed_styled_paragraph creates from a list of
\* runs records one (offset, style-id) pair per run, the offsets strictly
\* increasing, each the number of characters in the texts of the runs before.
C18_Offsets ==
    [][\A runs \in MixedRunLists :
          (CanAdd /\ writer' = add_mixed_styled_paragraph(writer, runs)) =>
              LET cp == LastParagraph(writer').char_positions IN
              /\ Len(cp) = Len(runs)
              /\ \A k \in 1..Len(cp) : cp[k].position = CharsOfRuns(runs, k - 1)
              /\ \A k \in 2..Len(cp) : cp[k - 1].position < cp[k].position]_vars


SideTables == {"tables", "images", "hyperlinks"}

\* the (side table, entry) pairs of a writer
SideEntries(w) == UNION {{<<t, k>> : k \in 1..Len(w[t])} : t \in SideTables}

IndexOf(w, e) == w[e[1]][e[2]].para_idx

SideTablesOk(w) ==
    /\ \A e \in SideEntries(w) : IndexOf(w, e) \in 0..(Len(w.paragraphs) - 1)
    /\ \A d, e \in SideEntries(w) : d # e => IndexOf(w, d) # IndexOf(w, e)
    /\ \A e \in SideEntries(w) :
          e[1] \in {"tables", "images"} => w.paragraphs[IndexOf(w, e) + 1].text = <<>>

\* the call w -> v appended at most one entry to side table t, and that entry
\* names the one paragraph the call pushed
SameCall(w, v, t) ==
    \/ v[t] = w[t]
    \/ /\ Len(v[t]) = Len(w[t]) + 1
       /\ SubSeq(v[t], 1, Len(w[t])) = w[t]
       /\ Len(v.paragraphs) = Len(w.paragraphs) + 1
       /\ v[t][Len(v[t])].para_idx = Len(v.paragraphs) - 1

\* C19: after any sequence of builder operations on a new writer, no
\* paragraph index occurs twice in the table, image and hyperlink side tables
\* taken together, every recorded index is the index of the paragraph the same
\* call pushed, and the paragraph at a table or image index has empty text.
C19_SideTables ==
    [][/\ SideTablesOk(writer')
       /\ \A t \in SideTables : SameCall(writer, writer', t)]_vars

C19_Witness ==
    /\ Len(writer.tables) = 1
    /\ Len(writer.images) = 1
    /\ Len(writer.hyperlinks) = 1
    /\ writer.tables[1].para_idx = 2
    /\ writer.paragraphs[3].text = <<>>
    /\ writer.paragraphs[writer.hyperlinks[1].para_idx + 1].text # <<>>


(***************************************************************************)
(* Claims about validation in convert                                      *)
(***************************************************************************)
BlankId == \A k \in 1..Len(doc.article_id) : IsWhitespace(doc.article_id[k])

Converting == conv_pc # "idle"

\* C20: convert validates the identifier first: with an empty or
\* whitespace-only article_id it returns an Input error (exit code 1, HTTP
\* 400) whatever the contents are and processes no content item; with any
\* other identifier validation passes, so no Input error is returned.
C20_ValidateFirst ==
    Converting =>
        /\ BlankId =>
              /\ conv_pc \in {"start", "done"}
              /\ conv_idx = 1 /\ ~has_prev
              /\ writer = HwpxWriter_new /\ archive = <<>>
              /\ conv_pc = "done" =>
                    /\ conv_result.kind = "Input"
                    /\ exit_code(conv_result.kind) = 1
                    /\ http_status(conv_result.kind) = 400
        /\ ~BlankId => conv_result.kind # "Input"

C20_Witness ==
    /\ conv_pc = "done"
    /\ doc.article_id = <<" ">>
    /\ Len(doc.contents) = MaxContents
    /\ conv_result.kind = "Input"
    /\ conv_idx = 1


(***************************************************************************)
(* Claims about hyperlink paragraphs and object ids                        *)
(***************************************************************************)
\* the texts of a run list, one after the other
RECURSIVE RunTexts(_)
RunTexts(runs) == IF runs = <<>> THEN <<>> ELSE Head(runs).t \o RunTexts(Tail(runs))

\* the runs of the paragraph of hyperlink entry k, without the section run
LinkParaRuns(k) ==
    SelectSeq(SectionParas[writer.hyperlinks[k].para_idx + 1].runs,
              LAMBDA run : run.kind # "secPr")

\* the first occurrences of the link texts come in list order, none overlapping
RECURSIVE InOrder(_, _, _, _)
InOrder(text, links, i, from) ==
    \/ i > Len(links)
    \/ LET at == Find(text, links[i].text, 0)
       IN /\ at >= from
          /\ InOrder(text, links, i + 1, at + Len(links[i].text))

\* C24: in every package written, the runs of a paragraph added by
\* add_paragraph_with_hyperlinks, taken in order, spell the paragraph's text
\* exactly once, and the runs before a link's run spell the text before the
\* first occurrence of the link's text, for any text, also one with multi-byte
\* characters before a link, when the links' first occurrences come in list
\* order without overlapping.
C24_LinkRuns ==
    Serialized =>
        \A k \in 1..Len(writer.hyperlinks) :
            LET text == writer.paragraphs[writer.hyperlinks[k].para_idx + 1].text
                links == writer.hyperlinks[k].links
                runs == LinkParaRuns(k)
            IN InOrder(text, links, 1, 0) =>
                  /\ RunTexts(runs) = escape_xml(text)
                  /\ \A r \in 1..Len(runs) :
                        runs[r].kind = "hyperlink" =>
                            \E l \in 1..Len(links) :
                                /\ runs[r].t = escape_xml(links[l].text)
                                /\ RunTexts(SubSeq(runs, 1, r - 1)) =
                                       escape_xml(SubSeq(text, 1,
                                                         Find(text, links[l].text, 0)))


PicRuns(k) ==
    SelectSeq(SectionParas[writer.images[k].para_idx + 1].runs,
              LAMBDA run : run.kind = "pic")

\* C25: the table-id and image-id counters of the writer advance by one on
\* each attach (after k add_table calls the table counter is 1 + k, likewise
\* for add_image), and the tables of one package carry pairwise distinct ids,
\* as do its pictures.
C25_Counters ==
    /\ writer.next_table_id = 1 + Len(writer.tables)
    /\ writer.next_image_id = 1 + Len(writer.images)
    /\ Serialized =>
          /\ \A j, k \in 1..Len(writer.tables) :
                j # k => TblRuns(j)[1].ctrl.id # TblRuns(k)[1].ctrl.id
          /\ \A j, k \in 1..Len(writer.images) :
                j # k => PicRuns(j)[1].ctrl.id # PicRuns(k)[1].ctrl.id


(***************************************************************************)
(* Claims about merge rectangles                                           *)
(***************************************************************************)
\* the rectangle of the merge entry at origin rc, the origin included
RectOf(t, rc) ==
    {<<r, c>> : r \in rc[1]..(rc[1] + t.cell_spans[rc].row_span - 1),
                c \in rc[2]..(rc[2] + t.cell_spans[rc].col_span - 1)}

TextAt(t, rc) == t.rows[rc[1] + 1][rc[2] + 1]

\* C26: in every table parse_html_table returns, the rectangles of two
\* different merge entries share no coordinate, and every covered coordinate
\* has empty text.
C26_DisjointSpans ==
    Returned =>
        /\ \A a, b \in DOMAIN table.cell_spans :
              a # b => RectOf(table, a) \cap RectOf(table, b) = {}
        /\ \A rc \in table.covered \cap GridCoords(table) : TextAt(table, rc) = <<>>


(***************************************************************************)
(* C27                                                                     *)
(***************************************************************************)
\* the scan stands on a frame header marker whose ten bytes are in the buffer
OnFrameHeader ==
    /\ scan_i + 9 < Len(img_data)
    /\ At(img_data, scan_i) = 255
    /\ At(img_data, scan_i + 1) \in {192, 194}

\* C27: the JPEG header scan terminates on every byte buffer: every loop
\* iteration that stays in the loop leaves a strictly larger index (also after
\* a segment of declared length 0 or of a length beyond the buffer), every
\* index read is below the buffer length, the scan ends, and it ends with the
\* pair read_jpeg_dimensions returns, which holds dimensions only when the
\* scan stands on a SOF0/SOF2 header and is (None, None) otherwise.
C27_ScanTerminates ==
    /\ [](scan_reads \subseteq 0..(Len(img_data) - 1))
    /\ [][ScanStep /\ scan_pc' = "loop" => scan_i' > scan_i]_vars
    /\ (scan_pc = "loop") ~> (scan_pc = "done")
    /\ [](scan_pc = "done" =>
            /\ scan_out = read_jpeg_dimensions(img_data)
            /\ IF OnFrameHeader
               THEN scan_out[1].some /\ scan_out[2].some
               ELSE scan_out = <<None, None>>)

\* the scan has stepped over a segment of declared length 0 and goes on
C27_Witness ==
    /\ scan_pc = "loop"
    /\ scan_i = 4
    /\ Len(img_data) > 6
    /\ SubSeq(img_data, 3, 6) = <<255, 219, 0, 0>>
    /\ scan_reads = 2..5

(***************************************************************************)
(* C22                                                                     *)
(***************************************************************************)
Stored == {j \in JobIds : jobs[j].present}

\* the fields a job record has set, for its status
FieldsFit(job) ==
    CASE job.status = "Completed" ->
            /\ job.file_path.some /\ job.atcl_id.some /\ job.completed_at.some
            /\ ~job.error_message.some
      [] job.status = "Failed" ->
            /\ job.error_message.some /\ job.completed_at.some
            /\ ~job.file_path.some
      [] job.status \in {"Queued", "Processing"} ->
            /\ ~job.file_path.some /\ ~job.atcl_id.some /\ ~job.completed_at.some
            /\ ~job.error_message.some
      [] OTHER -> FALSE

\* C22: in every reachable state of the job store a Completed job has
\* file_path, atcl_id and completed_at set and no error message, a Failed job
\* has an error message and completed_at set and no file_path, a Queued or
\* Processing job has none of them set; a status response carries a download
\* URL exactly when the job it found is Completed, and a download request for
\* a job that is not Completed (or not there) is answered 404.
C22_StoreFields ==
    /\ \A j \in Stored : FieldsFit(jobs[j])
    /\ resp.op = "get_job" => (resp.download_url <=> resp.status = "Completed")
    /\ resp.op = "download_job" /\ resp.status # "Completed" => resp.code = 404

\* one job is Completed, the other Failed, and the status of the first was
\* just asked for
C22_Witness ==
    /\ jobs[1].present /\ jobs[1].status = "Completed"
    /\ jobs[2].present /\ jobs[2].status = "Failed"
    /\ resp = get_job_response(jobs, 1)
    /\ resp.download_url

(***************************************************************************)
(* C28                                                                     *)
(***************************************************************************)
\* the workers between active.fetch_add(1) and active.fetch_sub(1)
InProcessJob == {w \in Workers : wk[w].pc \in {"enter", "convert", "report", "leave"}}

Holding == {w \in Workers : wk[w].job # 0}

\* C28: with a pool of worker_count workers on one receiver, every job that
\* submit accepted is received by a worker, no job id is received or set to
\* Processing twice, two workers never hold the same job, and the active
\* counter equals the number of workers inside process_job and never exceeds
\* max_workers.
C28_OneWorkerPerJob ==
    /\ [](\A j \in JobIds : recv_count[j] <= 1 /\ proc_count[j] <= 1)
    /\ [](\A v, w \in Holding : v # w => wk[v].job # wk[w].job)
    /\ [](active_workers = Cardinality(InProcessJob) /\ active_workers <= worker_count)
    /\ \A j \in JobIds : (req[j] = "accepted") ~> (recv_count[j] = 1)

\* both workers of a pool of two are inside process_job, each with its job
C28_Witness ==
    /\ worker_count = 2
    /\ active_workers = 2
    /\ wk[1].pc = "convert" /\ wk[2].pc = "convert"
    /\ wk[1].job # wk[2].job
    /\ \A j \in JobIds : recv_count[j] = 1 /\ proc_count[j] = 1

(***************************************************************************)
(* C29                                                                     *)
(***************************************************************************)
\* the status changes a job record may go through
ForwardMoves ==
    {<<"Queued", "Processing">>, <<"Processing", "Completed">>,
     <<"Processing", "Failed">>, <<"Queued", "Failed">>}

Finished(job) == job.status \in {"Completed", "Failed"}

\* C29: a step changes the status of a job that stays in the store only by
\* Queued -> Processing, Processing -> Completed, Processing -> Failed or
\* Queued -> Failed, and changes nothing of a job that is Completed or Failed,
\* under any interleaving of handlers, workers and cleanup.
C29_ForwardOnly ==
    [][\A j \in JobIds :
          jobs[j].present /\ jobs'[j].present =>
             /\ jobs'[j].status # jobs[j].status =>
                   <<jobs[j].status, jobs'[j].status>> \in ForwardMoves
             /\ Finished(jobs[j]) => jobs'[j] = jobs[j]]_vars

\* both jobs are over, one Completed and one Failed, each set to Processing
\* once, and the workers wait for a job again
C29_Witness ==
    /\ jobs[1].present /\ jobs[1].status = "Completed" /\ proc_count[1] = 1
    /\ jobs[2].present /\ jobs[2].status = "Failed" /\ proc_count[2] = 1
    /\ \A w \in Workers : wk[w].pc = "recv"

(***************************************************************************)
(* C23                                                                     *)
(***************************************************************************)
AtCapacity == Len(queue) >= QueueCapacity

InQueue(j) == \E k \in 1..Len(queue) : queue[k] = j

\* the send of job j is under way or over, and no worker has taken the job
Unreceived(j) == req[j] \in {"waiting", "accepted"} /\ recv_count[j] = 0

\* C23: when the job queue is at capacity, the submit of an async-convert
\* request ends in a rejection (503 after the job is marked Failed), the
\* request never waits for queue space, and a job whose send is under way or
\* over and which no worker has taken is never Queued without being in the
\* queue.
C23_RejectAtCapacity ==
    /\ [][\A j \in JobIds :
             req[j] = "created" /\ AtCapacity /\ req'[j] # "created" =>
                req'[j] = "submit_err"]_vars
    /\ [](\A j \in JobIds : req[j] = "rejected" => ~jobs[j].present \/ jobs[j].status = "Failed")
    /\ [](\A j \in JobIds : req[j] # "waiting")
    /\ [](\A j \in JobIds :
             Unreceived(j) /\ jobs[j].present /\ jobs[j].status = "Queued" => InQueue(j))

(***************************************************************************)
(* C30                                                                     *)
(***************************************************************************)
\* a worker has written the file of its job and not yet reported it
JustWritten(f) ==
    \E w \in Workers :
        wk[w].pc = "report" /\ wk[w].outcome = "written" /\ OutputFile(wk[w].job) = f

Referenced(f) ==
    \E j \in Stored : jobs[j].file_path.some /\ jobs[j].file_path.value = f

\* C30: under any interleaving of cleanup_expired with jobs in flight, every
\* output file on disk is referenced by the file_path of a job in the store
\* (or was written a moment ago by a worker about to report it), and cleanup
\* never removes a job that is Queued or Processing.
C30_NoOrphanFile ==
    /\ [](\A f \in files : Referenced(f) \/ JustWritten(f))
    /\ [][\A j \in JobIds :
             jobs[j].present /\ ~jobs'[j].present =>
                jobs[j].status \in {"Completed", "Failed"}]_vars

(***************************************************************************)
(* C21                                                                     *)
(***************************************************************************)
Over(j) == jobs[j].present /\ Finished(jobs[j])

\* C21: every job whose request was accepted eventually has status Completed
\* or Failed, whatever its conversion comes to (bytes, an error, a panic),
\* given that conversions end and workers are scheduled fairly; a worker that
\* reports an outcome goes back to receiving, and its report changes the
\* record of no other job.
C21_AcceptedJobEnds ==
    /\ \A j \in JobIds : (req[j] = "accepted") ~> Over(j)
    /\ \A w \in Workers : (wk[w].pc = "report") ~> (wk[w].pc = "recv")
    /\ [][\A w \in Workers :
             Report(w) => \A j \in JobIds \ {wk[w].job} : jobs'[j] = jobs[j]]_vars
====
